---- MODULE Spec2Model ----
(***************************************************************************)
(* A model of DCO's analysis-and-practice pipeline: the spaced-repetition  *)
(* scheduler (dco/core/practice.py), the move classifier                   *)
(* (dco/core/classification.py), the persistence of analyses              *)
(* (dco/core/analysis.py), the batch and single-game analysis workers      *)
(* (dco/ui/screens/library.py, analysis.py) and the practice screen        *)
(* (dco/ui/screens/practice.py).                                           *)
(*                                                                         *)
(* Numbers.  ease_factor is a float that only ever moves in steps of 0.1   *)
(* or 0.2 and is clamped at 1.3, so it is kept in tenths (25 = 2.5).       *)
(* interval_days and due_date are decimal fractions <<n, e>> = n / 10^e,   *)
(* kept normalised, so that products such as 6.0 * 2.7 are exact.          *)
(***************************************************************************)
EXTENDS Integers, Sequences, FiniteSets, TLC

VARIABLES
    sched,      \* SpecSched: one PracticeProgress record under update
    cls,        \* SpecClassify: one classify_move call, its inputs and result
    ana,        \* SpecAnalyze: one game, its GameAnalysisResult and the rows saved for it
    db,         \* the committed contents of the SQLite store, one set of rows per table
    sel,        \* SpecSelect: one select_practice_items call, its arguments and result
    gen,        \* SpecGen: repeated generate_practice_items calls for one game
    batch,      \* BatchAnalysisWorker: its position in run() and its locals
    ui,         \* PracticeScreen: the fields of the widget
    hist,       \* ghost: how many analysis runs (per game), sessions and moves have happened
    engine,     \* SpecEngine: one ChessEngine object, its subprocesses and the run that owns it
    imp         \* SpecImport: the games table under PGNImporter.import_pgn_text calls

vars == <<sched, cls, ana, db, sel, gen, batch, ui, hist, engine, imp>>

NONE == "NONE"

(***************************************************************************)
(* Decimal fractions.                                                      *)
(***************************************************************************)
RECURSIVE Pow10(_)
Pow10(e) == IF e = 0 THEN 1 ELSE 10 * Pow10(e - 1)

RECURSIVE Norm(_)
Norm(q) == IF q[2] > 0 /\ q[1] % 10 = 0 THEN Norm(<<q[1] \div 10, q[2] - 1>>) ELSE q

Days(n) == <<n, 0>>

\* q * (t / 10)
MulTenths(q, t) == Norm(<<q[1] * t, q[2] + 1>>)

\* n + q, n a whole number of days
AddDays(n, q) == Norm(<<n * Pow10(q[2]) + q[1], q[2]>>)

\* q <= n
LeqDays(q, n) == q[1] <= n * Pow10(q[2])

Max(a, b) == IF a >= b THEN a ELSE b
Min(a, b) == IF a <= b THEN a ELSE b

(***************************************************************************)
(* The scheduler: update_practice_progress.                                *)
(***************************************************************************)
PracticeResults == {"PASS_FIRST_TRY", "PASS", "FAIL"}

\* ease_factor floor, in tenths
MinEase == 13

\* The progress record generate_practice_items creates for a new item.
FreshProgress(now) ==
    [ due_date |-> Days(now),
      interval_days |-> Days(1),
      ease_factor |-> 25,
      repetitions |-> 0,
      lapses |-> 0,
      last_result |-> NONE,
      attempts_total |-> 0,
      attempts_first_try_correct |-> 0,
      consecutive_first_try |-> 0 ]

Quality(result) ==
    IF result = "PASS_FIRST_TRY" THEN 5
    ELSE IF result = "PASS" THEN 3
    ELSE 1

\* Variants of update_practice_progress, each with one plausible slip.
UpdatePracticeProgress_NoClamp(progress, result, first_try, now) ==
    LET quality == Quality(result)
        reps == progress.repetitions + 1
        interval == IF quality < 3 THEN Days(1)
                    ELSE IF reps = 1 THEN Days(1)
                    ELSE IF reps = 2 THEN Days(6)
                    ELSE MulTenths(progress.interval_days, progress.ease_factor)
    IN  [ due_date |-> AddDays(now, interval),
          interval_days |-> interval,
          ease_factor |-> IF quality < 3
                          THEN progress.ease_factor - 2
                          ELSE progress.ease_factor + 1,
          repetitions |-> IF quality < 3 THEN 0 ELSE reps,
          lapses |-> IF quality < 3 THEN progress.lapses + 1 ELSE progress.lapses,
          last_result |-> result,
          attempts_total |-> progress.attempts_total + 1,
          attempts_first_try_correct |->
              IF first_try /\ result # "FAIL"
              THEN progress.attempts_first_try_correct + 1
              ELSE progress.attempts_first_try_correct,
          consecutive_first_try |->
              IF quality < 3 THEN 0
              ELSE IF result = "PASS_FIRST_TRY"
                   THEN progress.consecutive_first_try + 1
                   ELSE 0 ]

UpdatePracticeProgress_KeepStreak(progress, result, first_try, now) ==
    LET quality == Quality(result)
        reps == progress.repetitions + 1
        interval == IF quality < 3 THEN Days(1)
                    ELSE IF reps = 1 THEN Days(1)
                    ELSE IF reps = 2 THEN Days(6)
                    ELSE MulTenths(progress.interval_days, progress.ease_factor)
    IN  [ due_date |-> AddDays(now, interval),
          interval_days |-> interval,
          ease_factor |-> IF quality < 3
                          THEN Max(MinEase, progress.ease_factor - 2)
                          ELSE Max(MinEase, progress.ease_factor + 1),
          repetitions |-> IF quality < 3 THEN 0 ELSE reps,
          lapses |-> IF quality < 3 THEN progress.lapses + 1 ELSE progress.lapses,
          last_result |-> result,
          attempts_total |-> progress.attempts_total + 1,
          attempts_first_try_correct |->
              IF first_try /\ result # "FAIL"
              THEN progress.attempts_first_try_correct + 1
              ELSE progress.attempts_first_try_correct,
          consecutive_first_try |->
              IF quality < 3 THEN 0
              ELSE IF result = "PASS_FIRST_TRY"
                   THEN progress.consecutive_first_try + 1
                   ELSE progress.consecutive_first_try ]

UpdatePracticeProgress_EaseFirst(progress, result, first_try, now) ==
    LET quality == Quality(result)
        reps == progress.repetitions + 1
        ease == IF quality < 3
                THEN Max(MinEase, progress.ease_factor - 2)
                ELSE Max(MinEase, progress.ease_factor + 1)
        interval == IF quality < 3 THEN Days(1)
                    ELSE IF reps = 1 THEN Days(1)
                    ELSE IF reps = 2 THEN Days(6)
                    ELSE MulTenths(progress.interval_days, ease)
    IN  [ due_date |-> AddDays(now, interval),
          interval_days |-> interval,
          ease_factor |-> ease,
          repetitions |-> IF quality < 3 THEN 0 ELSE reps,
          lapses |-> IF quality < 3 THEN progress.lapses + 1 ELSE progress.lapses,
          last_result |-> result,
          attempts_total |-> progress.attempts_total + 1,
          attempts_first_try_correct |->
              IF first_try /\ result # "FAIL"
              THEN progress.attempts_first_try_correct + 1
              ELSE progress.attempts_first_try_correct,
          consecutive_first_try |->
              IF quality < 3 THEN 0
              ELSE IF result = "PASS_FIRST_TRY"
                   THEN progress.consecutive_first_try + 1
                   ELSE 0 ]

UpdatePracticeProgress(progress, result, first_try, now) ==
    LET total == progress.attempts_total + 1
        firstOk == IF first_try /\ result # "FAIL"
                   THEN progress.attempts_first_try_correct + 1
                   ELSE progress.attempts_first_try_correct
        quality == Quality(result)
        reps == progress.repetitions + 1
        interval == IF quality < 3 THEN Days(1)
                    ELSE IF reps = 1 THEN Days(1)
                    ELSE IF reps = 2 THEN Days(6)
                    ELSE MulTenths(progress.interval_days, progress.ease_factor)
    IN  [ due_date |-> AddDays(now, interval),
          interval_days |-> interval,
          ease_factor |-> IF quality < 3
                          THEN Max(MinEase, progress.ease_factor - 2)
                          ELSE Max(MinEase, progress.ease_factor + 1),
          repetitions |-> IF quality < 3 THEN 0 ELSE reps,
          lapses |-> IF quality < 3 THEN progress.lapses + 1 ELSE progress.lapses,
          last_result |-> result,
          attempts_total |-> total,
          attempts_first_try_correct |-> firstOk,
          consecutive_first_try |->
              IF quality < 3 THEN 0
              ELSE IF result = "PASS_FIRST_TRY"
                   THEN progress.consecutive_first_try + 1
                   ELSE 0 ]


(***************************************************************************)
(* The classifier: classify_move and its helpers.  An EngineEvaluation is  *)
(* [kind, v]: kind "cp" (score_cp = v, score_mate is None), "mate"         *)
(* (score_mate = v, score_cp is None) or "none" (both None), as            *)
(* ChessEngine.evaluate fills them; v is from White's perspective.  An     *)
(* Optional[int] result is a sequence, empty for None.                     *)
(***************************************************************************)
EXCELLENT_THRESHOLD == 15
GOOD_THRESHOLD == 50
INACCURACY_THRESHOLD == 100
MISTAKE_THRESHOLD == 200
BRILLIANT_MARGIN == 30
BRILLIANT_MIN_SACRIFICE == 2
UNIQUE_GAP == 120
BREADTH_GAP == 150
WORST_GAP == 250
DECIDED_SUPPRESS == 600
PV_HORIZON == 8

MoveClassifications ==
    {"BOOK", "BEST", "EXCELLENT", "GOOD", "INACCURACY", "MISTAKE", "BLUNDER",
     "CRITICAL", "BRILLIANT"}

Abs(x) == IF x < 0 THEN -x ELSE x

\* _calculate_cp_loss without the change of sign for Black
CalculateCpLoss_NoFlip(eval_best, eval_user, side_to_move) ==
    IF eval_best.kind # "cp" \/ eval_user.kind # "cp" THEN << >>
    ELSE <<Max(0, eval_best.v - eval_user.v)>>

\* _calculate_cp_loss
CalculateCpLoss(eval_best, eval_user, side_to_move) ==
    IF eval_best.kind # "cp" \/ eval_user.kind # "cp" THEN << >>
    ELSE LET score_best == IF side_to_move = "white" THEN eval_best.v ELSE -eval_best.v
             score_user == IF side_to_move = "white" THEN eval_user.v ELSE -eval_user.v
         IN  <<Max(0, score_best - score_user)>>

\* _classify_mate_situation
ClassifyMateSituation(eval_best, eval_user, side_to_move) ==
    LET guard == eval_best.kind = "mate" /\ eval_best.v > 0
        mate_for_us == IF side_to_move = "white" THEN eval_best.v > 0
                                                 ELSE eval_best.v < 0
        user_mate == /\ eval_user.kind = "mate"
                     /\ IF side_to_move = "white" THEN eval_user.v > 0
                                                  ELSE eval_user.v < 0
        opponent_has_mate == /\ eval_user.kind = "mate"
                             /\ IF side_to_move = "white" THEN eval_user.v < 0
                                                          ELSE eval_user.v > 0
    IN  IF guard /\ mate_for_us
        THEN (IF user_mate THEN "BEST" ELSE "CRITICAL")
        ELSE IF opponent_has_mate THEN "BLUNDER" ELSE NONE

\* The k-th smallest element of a non-empty sequence of integers.
KthSmallest(vals, k) ==
    CHOOSE v \in {vals[i] : i \in 1..Len(vals)} :
        /\ Cardinality({i \in 1..Len(vals) : vals[i] < v}) < k
        /\ Cardinality({i \in 1..Len(vals) : vals[i] <= v}) >= k

\* _median, doubled so that the mean of the two middle values stays an integer
Median2(vals) ==
    LET n == Len(vals)
    IN  IF n = 0 THEN 0
        ELSE IF n % 2 = 0
             THEN KthSmallest(vals, n \div 2) + KthSmallest(vals, (n \div 2) + 1)
             ELSE 2 * KthSmallest(vals, (n \div 2) + 1)

RECURSIVE SelectSeq2(_, _)
\* the score_cp of the evaluations of s that have one, times sign
SelectSeq2(s, sign) ==
    IF s = << >> THEN << >>
    ELSE IF Head(s).kind # "cp" THEN SelectSeq2(Tail(s), sign)
         ELSE <<sign * Head(s).v>> \o SelectSeq2(Tail(s), sign)

\* _is_critical_position on the outcome of its multi-PV=5 probe:
\*   probe.fails    an engine.evaluate call of the probe raised
\*   probe.mate     whether multi_eval.score_mate is not None
\*   probe.pv_eval  for each PV line of the probe, in order, the evaluation
\*                  of the position after its first move
IsCriticalPosition(probe, side_to_move) ==
    IF probe.fails THEN FALSE
    ELSE IF Len(probe.pv_eval) < 2 THEN FALSE
    ELSE LET lines == SubSeq(probe.pv_eval, 1, Min(5, Len(probe.pv_eval)))
             evaluations == SelectSeq2(lines, IF side_to_move = "white" THEN 1 ELSE -1)
             n == Len(evaluations)
             E1 == evaluations[1]
             E2 == evaluations[2]
         IN  IF n < 2 THEN FALSE
             ELSE IF Abs(E1) >= DECIDED_SUPPRESS /\ ~probe.mate THEN FALSE
             ELSE IF E1 - E2 < UNIQUE_GAP THEN FALSE
             ELSE IF n >= 3 /\ 2 * E1 - Median2(SubSeq(evaluations, 2, Min(5, n))) < 2 * BREADTH_GAP
                  THEN FALSE
             ELSE IF n >= 5 /\ E1 - evaluations[5] < WORST_GAP THEN FALSE
             ELSE TRUE

\* _is_recapture: the board's move stack, and whether the last move captured
\* on the square this move captures on
IsRecapture(b) ==
    IF b.stack_empty THEN FALSE
    ELSE IF ~b.last_was_capture THEN FALSE
    ELSE b.same_square /\ b.target_occupied

\* _calculate_material(board_after, board.turn) at the horizon, standing in
\* for the material right after the move: what the code would read if it
\* measured the sacrifice once the opponent had answered
MaterialImmediate_AtHorizon(b) == b.material_horizon

\* _calculate_material(board_after, board.turn): the MOVER's material on the
\* board on which only the mover's own move has been pushed.  A move takes
\* none of the mover's own pieces off the board (a capture and en passant
\* remove the opponent's), so it is the material before the move, plus what
\* a promotion adds (b.promotion_gain: 0, or 2, 4, 8 for a pawn turning
\* into a minor piece, a rook, a queen).
MaterialImmediate(b) == b.material_before + b.promotion_gain

\* _is_brilliant_move on what it reads from the board and the engine:
\*   b.legal_moves, b.gives_check, b.material_before, b.promotion_gain,
\*   b.pv_moves_played (plies of eval_user's first PV that could be played,
\*   at most PV_HORIZON), b.material_horizon (the mover's material after
\*   them), b.deeper (the depth + 5 re-evaluation: [fails, eval])
IsBrilliantMove(is_best, eval_best, eval_user, side_to_move, b) ==
    LET cp_loss == CalculateCpLoss(eval_best, eval_user, side_to_move)
        sign == IF side_to_move = "white" THEN 1 ELSE -1
    IN  IF ~is_best /\ (cp_loss = << >> \/ cp_loss[1] > EXCELLENT_THRESHOLD) THEN FALSE
        ELSE IF IsRecapture(b) THEN FALSE
        ELSE IF b.legal_moves <= 1 THEN FALSE
        ELSE IF b.gives_check THEN FALSE
        ELSE IF MaterialImmediate(b) >= b.material_before THEN FALSE
        ELSE IF /\ b.pv_moves_played >= 4
                /\ \/ b.material_horizon >= b.material_before - 1
                   \/ b.material_before - b.material_horizon < BRILLIANT_MIN_SACRIFICE
             THEN FALSE
        ELSE IF /\ b.pv_moves_played < 4
                /\ b.material_before - MaterialImmediate(b) < BRILLIANT_MIN_SACRIFICE
             THEN FALSE
        ELSE IF b.deeper.fails THEN FALSE
        ELSE IF /\ b.deeper.eval.kind = "cp" /\ eval_best.kind = "cp"
                /\ sign * b.deeper.eval.v < sign * eval_best.v - BRILLIANT_MARGIN
             THEN FALSE
        ELSE TRUE

\* classify_move.  in.is_best_move is "eval_before.best_move and move ==
\* eval_before.best_move"; in.engine is whether an engine was passed.
ClassifyMove(in) ==
    IF in.is_book THEN "BOOK"
    ELSE IF in.is_best_move
    THEN IF in.engine /\ IsCriticalPosition(in.probe, in.side) THEN "CRITICAL"
         ELSE IF in.engine /\ IsBrilliantMove(in.is_best_move, in.eval_best, in.eval_user,
                                              in.side, in.board)
              THEN "BRILLIANT"
         ELSE "BEST"
    ELSE LET cp_loss == CalculateCpLoss(in.eval_best, in.eval_user, in.side)
             mate_classification == ClassifyMateSituation(in.eval_best, in.eval_user, in.side)
         IN  IF mate_classification # NONE THEN mate_classification
             ELSE IF cp_loss = << >> THEN "GOOD"
             ELSE IF cp_loss[1] <= EXCELLENT_THRESHOLD
                  THEN IF in.engine /\ IsBrilliantMove(in.is_best_move, in.eval_best,
                                                       in.eval_user, in.side, in.board)
                       THEN "BRILLIANT"
                       ELSE "EXCELLENT"
             ELSE IF cp_loss[1] <= GOOD_THRESHOLD THEN "GOOD"
             ELSE IF cp_loss[1] <= INACCURACY_THRESHOLD THEN "INACCURACY"
             ELSE IF cp_loss[1] <= MISTAKE_THRESHOLD THEN "MISTAKE"
             ELSE "BLUNDER"

(***************************************************************************)
(* The store.  db holds the committed rows of the tables the pipeline      *)
(* writes; every transaction below is applied to it in one step, at its    *)
(* commit.  Each row carries, besides its columns, the ghost field run:    *)
(* which analysis run of its game wrote it (the first, the second, ...).   *)
(***************************************************************************)
EmptyDb ==
    [ analyses |-> {}, moves |-> {}, analytics |-> {}, items |-> {}, progress |-> {} ]

PracticeCategories == {"BLUNDER", "MISTAKE", "INACCURACY", "CRITICAL"}

\* A practice_progress row: the key columns and the scheduling columns of p.
ProgressRow(id, practice_item_id, run, p) ==
    [ id |-> id,
      practice_item_id |-> practice_item_id,
      run |-> run,
      due_date |-> p.due_date,
      interval_days |-> p.interval_days,
      ease_factor |-> p.ease_factor,
      repetitions |-> p.repetitions,
      lapses |-> p.lapses,
      last_result |-> p.last_result,
      attempts_total |-> p.attempts_total,
      attempts_first_try_correct |-> p.attempts_first_try_correct,
      consecutive_first_try |-> p.consecutive_first_try ]

\* The scheduling columns of a practice_progress row.
Scheduling(row) ==
    [ due_date |-> row.due_date,
      interval_days |-> row.interval_days,
      ease_factor |-> row.ease_factor,
      repetitions |-> row.repetitions,
      lapses |-> row.lapses,
      last_result |-> row.last_result,
      attempts_total |-> row.attempts_total,
      attempts_first_try_correct |-> row.attempts_first_try_correct,
      consecutive_first_try |-> row.consecutive_first_try ]

(***************************************************************************)
(* select_practice_items.                                                  *)
(***************************************************************************)
\* The query: items of the categories, inner-joined with their progress,
\* not mastered and, with due, due by now.
QueryItems(items, progress, categories, due, now) ==
    { it \in items :
        /\ it.category \in categories
        /\ \E p \in progress :
            /\ p.practice_item_id = it.id
            /\ p.consecutive_first_try < 3
            /\ due => LeqDays(p.due_date, now) }

\* The fallback query with its mastery filter left out.
FallbackItems_AnyItem(items, progress, categories) ==
    { it \in items :
        /\ it.category \in categories
        /\ \E p \in progress : p.practice_item_id = it.id }

\* The fallback query of select_practice_items (no due filter).
FallbackItems(items, progress, categories) ==
    QueryItems(items, progress, categories, FALSE, 0)

\* The first query with its due filter left out.
FirstItems_NoDue(items, progress, categories, due_only, now) ==
    QueryItems(items, progress, categories, FALSE, now)

\* The first query of select_practice_items.
FirstItems(items, progress, categories, due_only, now) ==
    QueryItems(items, progress, categories, due_only, now)

\* random.shuffle: every order of the rows of S
Shuffles(S) ==
    { f \in [1..Cardinality(S) -> S] :
        \A i, j \in 1..Cardinality(S) : i # j => f[i] # f[j] }

\* The lists select_practice_items can return (limit >= 0).
SelectPracticeItems(items, progress, categories, limit, due_only, now) ==
    LET first == FirstItems(items, progress, categories, due_only, now)
        found == IF first = {} THEN FallbackItems(items, progress, categories)
                               ELSE first
    IN  { SubSeq(f, 1, Min(limit, Len(f))) : f \in Shuffles(found) }

(***************************************************************************)
(* Analysis results.  A game has GameLen plies; analyze_game gives each    *)
(* ply below the book prefix the class BOOK and every later ply a class    *)
(* that depends on the engine's evaluations, here any of PlayedClasses.    *)
(***************************************************************************)
NumGames == 2
GameLen == 14
OPENING_BOOK_PLIES == 12
DEFAULT_OFFSET_PLIES == 2

Games == 1..NumGames

PlayedClasses == {"BEST", "BLUNDER"}

\* one MoveAnalysis of analyze_game
MoveAnalysis(ply_index, classification) ==
    [ ply_index |-> ply_index,
      classification |-> classification,
      is_book |-> ply_index < OPENING_BOOK_PLIES,
      is_critical |-> classification = "CRITICAL",
      is_brilliant |-> classification = "BRILLIANT" ]

\* the GameAnalysisResult.moves lists analyze_game can return; moves[i] is the
\* move of ply i - 1
AnalysisResults ==
    { [ i \in 1..GameLen |->
          MoveAnalysis(i - 1, IF i - 1 < OPENING_BOOK_PLIES THEN "BOOK" ELSE c[i]) ] :
        c \in [(OPENING_BOOK_PLIES + 1)..GameLen -> PlayedClasses] }

(***************************************************************************)
(* save_analysis_to_db, as the transaction it commits.                     *)
(***************************************************************************)
MoveRow(game_id, m, run) ==
    [ game_id |-> game_id, ply_index |-> m.ply_index,
      player_color |-> IF m.ply_index % 2 = 0 THEN "white" ELSE "black",
      classification |-> m.classification, is_book |-> m.is_book,
      is_critical |-> m.is_critical, is_brilliant |-> m.is_brilliant, run |-> run ]

SaveAnalysisToDb(d, game_id, result, run) ==
    LET old_analysis == \E a \in d.analyses : a.game_id = game_id
        moves == IF old_analysis THEN {m \in d.moves : m.game_id # game_id} ELSE d.moves
        analyses == IF old_analysis THEN {a \in d.analyses : a.game_id # game_id}
                                    ELSE d.analyses
    IN  [ d EXCEPT
            !.analyses = analyses \cup {[game_id |-> game_id, run |-> run]},
            !.moves = moves \cup {MoveRow(game_id, result[i], run) : i \in 1..Len(result)},
            !.analytics = {x \in d.analytics : x.game_id # game_id}
                              \cup {[game_id |-> game_id, run |-> run]} ]

(***************************************************************************)
(* generate_practice_items, up to the caller's commit.                     *)
(***************************************************************************)
DefaultCategories == {"BLUNDER", "MISTAKE", "CRITICAL"}

\* _map_move_to_category
MapMoveToCategory(classification) ==
    IF classification \in {"BLUNDER", "MISTAKE", "INACCURACY", "CRITICAL"}
    THEN classification ELSE NONE

\* The id SQLite gives a row inserted without one: the tables are declared
\* with INTEGER PRIMARY KEY and no AUTOINCREMENT keyword, so it is one more
\* than the largest id in the table, 1 in an empty table.
NextId(rows) ==
    IF rows = {} THEN 1
    ELSE 1 + CHOOSE n \in {r.id : r \in rows} : \A r \in rows : r.id <= n

\* what engine.evaluate does on a start position inside _build_target_line:
\* a PV ("line"), no PV ("empty"), or an exception ("raise")
EngineOutcomes == {"line", "empty", "raise"}

StartPly(ply_index) == Max(0, ply_index - DEFAULT_OFFSET_PLIES)

\* the start positions of the plies past the book prefix, the only ones
\* _build_target_line is called on
StartPlies == { StartPly(p) : p \in OPENING_BOOK_PLIES..(GameLen - 1) }

\* The deletion with nothing deleted.
DeleteGameItems_Keep(d, game_id) == d

\* the two deletes at the head of generate_practice_items
DeleteGameItems(d, game_id) ==
    LET ids == { it.id : it \in {x \in d.items : x.source_game_id = game_id} }
    IN  [ d EXCEPT !.progress = {p \in d.progress : p.practice_item_id \notin ids},
                   !.items = {it \in d.items : it.source_game_id # game_id} ]

PracticeItemRow(id, game_id, move, category, run) ==
    [ id |-> id,
      source_game_id |-> game_id,
      source_ply_index |-> move.ply_index,
      start_ply |-> StartPly(move.ply_index),
      side_to_move |-> IF StartPly(move.ply_index) % 2 = 0 THEN "white" ELSE "black",
      target |-> <<game_id, StartPly(move.ply_index)>>,
      category |-> category,
      run |-> run ]

RECURSIVE GenerateFrom(_, _, _, _, _, _, _)
\* the loop over analysis_result.moves from moves[i] on; acc.ok turns FALSE
\* where the code raises: engine.evaluate fails, or the INSERT of a progress
\* row breaks the unique constraint on practice_item_id
GenerateFrom(acc, game_id, result, eng, run, now, i) ==
    IF i > Len(result) \/ ~acc.ok THEN acc
    ELSE LET move == result[i]
             category == MapMoveToCategory(move.classification)
             rest(a) == GenerateFrom(a, game_id, result, eng, run, now, i + 1)
         IN  IF category = NONE \/ category \notin DefaultCategories THEN rest(acc)
             ELSE IF move.is_book \/ move.is_brilliant THEN rest(acc)
             ELSE IF eng[StartPly(move.ply_index)] = "raise" THEN [acc EXCEPT !.ok = FALSE]
             ELSE IF eng[StartPly(move.ply_index)] = "empty" THEN rest(acc)
             ELSE LET item == PracticeItemRow(NextId(acc.db.items), game_id, move,
                                              category, run)
                      progress == ProgressRow(NextId(acc.db.progress), item.id, run,
                                              FreshProgress(now))
                  IN  IF \E p \in acc.db.progress : p.practice_item_id = item.id
                      THEN [acc EXCEPT !.ok = FALSE]
                      ELSE rest([acc EXCEPT !.db.items = @ \cup {item},
                                            !.db.progress = @ \cup {progress}])

\* generate_practice_items: [ok, db], db the store the caller's commit leaves
\* when ok
GeneratePracticeItems(d, game_id, result, eng, run, now) ==
    GenerateFrom([ok |-> TRUE, db |-> DeleteGameItems(d, game_id)],
                 game_id, result, eng, run, now, 1)

\* the rows of one game
GameRows(d, game_id) ==
    LET items == {it \in d.items : it.source_game_id = game_id}
    IN  [ analyses |-> {a \in d.analyses : a.game_id = game_id},
          moves |-> {m \in d.moves : m.game_id = game_id},
          analytics |-> {x \in d.analytics : x.game_id = game_id},
          items |-> items,
          progress |-> {p \in d.progress : p.practice_item_id \in {it.id : it \in items}} ]

(***************************************************************************)
(* SpecSched: a progress record, fresh or arbitrary, under any sequence    *)
(* of attempt results.                                                     *)
(***************************************************************************)
MaxUpdates == 4

SchedNow == 1

ArbitraryProgress ==
    [ due_date : {Days(0)},
      interval_days : {Days(1), Days(6), Days(15)},
      ease_factor : {13, 14, 15, 25},
      repetitions : {0, 1, 2, 5},
      lapses : {0, 2},
      last_result : {"PASS"},
      attempts_total : {7},
      attempts_first_try_correct : {1},
      consecutive_first_try : {0, 2, 3} ]

SchedIdle == [ p |-> NONE ]
ClsIdle == [ out |-> NONE ]
SelIdle == [ done |-> FALSE ]
GenIdle == [ count |-> 0 ]
BatchIdle == [ pc |-> "off" ]
UiIdle == [ running |-> FALSE ]
HistIdle == [ runs |-> 0 ]
AnaIdle == [ pc |-> "off" ]
EngineIdle == [ pc |-> "off" ]
ImpIdle == [ pc |-> "off" ]

SchedInit ==
    /\ engine = EngineIdle /\ imp = ImpIdle
    /\ ana = AnaIdle
    /\ cls = ClsIdle
    /\ db = EmptyDb
    /\ sel = SelIdle
    /\ gen = GenIdle /\ batch = BatchIdle /\ ui = UiIdle /\ hist = HistIdle
    /\ \E p \in ArbitraryProgress \cup {FreshProgress(0)} :
        sched = [ p |-> p,
                  prev |-> p,
                  fresh |-> (p = FreshProgress(0)),
                  hist |-> << >> ]

SchedUpdate ==
    /\ Len(sched.hist) < MaxUpdates
    /\ \E result \in PracticeResults, first_try \in BOOLEAN :
        sched' = [ sched EXCEPT
                     !.p = UpdatePracticeProgress(sched.p, result, first_try, SchedNow),
                     !.prev = sched.p,
                     !.hist = Append(sched.hist, result) ]
    /\ UNCHANGED <<engine, imp, cls, ana, db, sel, gen, batch, ui, hist>>

SchedNext == SchedUpdate

SpecSched == SchedInit /\ [][SchedNext]_vars

(***************************************************************************)
(* SpecClassify: one classify_move call on inputs drawn from samples.      *)
(***************************************************************************)
CpSamples == {-250, -60, 0, 15, 16, 50, 51, 100, 101, 200, 201}
MateSamples == {-2, 2}

Cp(c) == [kind |-> "cp", v |-> c]
Mate(m) == [kind |-> "mate", v |-> m]
NoScore == [kind |-> "none", v |-> 0]

EvalSamples ==
    {Cp(c) : c \in CpSamples} \cup {Mate(m) : m \in MateSamples} \cup {NoScore}

ProbeSamples ==
    { [fails |-> TRUE, mate |-> FALSE, pv_eval |-> << >>],
      [fails |-> FALSE, mate |-> FALSE,
       pv_eval |-> <<Cp(300), Cp(100), Cp(50), Cp(0), Cp(-50)>>],
      [fails |-> FALSE, mate |-> FALSE,
       pv_eval |-> <<Cp(-300), Cp(-100), Cp(-50), Cp(0), Cp(50)>>],
      [fails |-> FALSE, mate |-> FALSE, pv_eval |-> <<Cp(30), Cp(20), Cp(10)>>],
      \* a position with two legal moves
      [fails |-> FALSE, mate |-> FALSE, pv_eval |-> <<Cp(150), Cp(-30)>>] }

\* The position before the move and the move, as the game has them:
\* recapture is whether the previous move of the game captured on the square
\* this move captures on.
BoardOf(recapture, legal_moves, gives_check, promotion_gain, pv_moves_played, material_horizon, deeper) ==
    [ stack_empty |-> FALSE, last_was_capture |-> recapture,
      same_square |-> recapture, target_occupied |-> recapture,
      legal_moves |-> legal_moves, gives_check |-> gives_check,
      material_before |-> 39, promotion_gain |-> promotion_gain,
      pv_moves_played |-> pv_moves_played, material_horizon |-> material_horizon,
      deeper |-> deeper ]

Scored(e) == [fails |-> FALSE, eval |-> e]

BoardSamples ==
    { \* a quiet move
      BoardOf(FALSE, 30, FALSE, 0, 8, 39, Scored(Cp(0))),
      \* a knight left en prise and not won back within the PV
      BoardOf(FALSE, 30, FALSE, 0, 8, 36, Scored(Cp(0))),
      \* the same, the deeper search finding a mate
      BoardOf(FALSE, 30, FALSE, 0, 8, 36, Scored(Mate(-2))),
      \* the same, with a short PV and a failing deeper search
      BoardOf(FALSE, 30, FALSE, 0, 2, 39, [fails |-> TRUE, eval |-> NoScore]),
      \* a recapture that leaves the capturing piece en prise
      BoardOf(TRUE, 30, FALSE, 0, 8, 36, Scored(Cp(0))),
      \* the only legal move
      BoardOf(FALSE, 1, FALSE, 0, 8, 36, Scored(Cp(0))),
      \* a check
      BoardOf(FALSE, 30, TRUE, 0, 8, 36, Scored(Cp(0))),
      \* a promotion to a queen
      BoardOf(FALSE, 30, FALSE, 8, 8, 47, Scored(Cp(0))) }

\* the probe has at most one line per legal move
ClassifyInputs ==
    { in \in [ is_book : BOOLEAN,
               is_best_move : BOOLEAN,
               engine : BOOLEAN,
               side : {"white", "black"},
               eval_best : EvalSamples,
               eval_user : EvalSamples,
               probe : ProbeSamples,
               board : BoardSamples ] :
        Len(in.probe.pv_eval) <= in.board.legal_moves }

ClassifyInit ==
    /\ engine = EngineIdle /\ imp = ImpIdle
    /\ ana = AnaIdle
    /\ sched = SchedIdle
    /\ db = EmptyDb
    /\ sel = SelIdle
    /\ gen = GenIdle /\ batch = BatchIdle /\ ui = UiIdle /\ hist = HistIdle
    /\ \E in \in ClassifyInputs : cls = [ in |-> in, out |-> NONE, via |-> NONE ]

\* classify_move called with the board and the arguments as they are
ClassifyCall ==
    /\ cls.out = NONE
    /\ cls' = [ cls EXCEPT !.out = ClassifyMove(cls.in), !.via = "direct" ]
    /\ UNCHANGED <<engine, imp, sched, ana, db, sel, gen, batch, ui, hist>>

\* chess.Board(fen_before): the position, with an empty move stack
BoardFromFen(b) == [ b EXCEPT !.stack_empty = TRUE ]

\* one ply of analyze_game: classify_move is given the analyzer's engine and
\* a board rebuilt from the FEN of the position before the move
AnalyzePly ==
    /\ cls.out = NONE
    /\ cls' = [ cls EXCEPT
                  !.out = ClassifyMove([ cls.in EXCEPT !.engine = TRUE,
                                                       !.board = BoardFromFen(@) ]),
                  !.via = "analyze_game" ]
    /\ UNCHANGED <<engine, imp, sched, ana, db, sel, gen, batch, ui, hist>>

ClassifyNext == ClassifyCall \/ AnalyzePly

SpecClassify == ClassifyInit /\ [][ClassifyNext]_vars

(***************************************************************************)
(* The analysis of one game: analyze_game with compute_accuracy and        *)
(* _estimate_performance_elo, and what save_analysis_to_db stores of it.   *)
(* An Optional[int] is a sequence, empty for None.  Floats are kept in     *)
(* fixed point: a move score in 1/10000, an accuracy in 1/100 (it is       *)
(* rounded to two decimals), an average as the pair [sum, count], the Elo  *)
(* estimate as an exact fraction until int() truncates it.                 *)
(***************************************************************************)
MIN_PLIES == 20
MAX_DIFF == 400
OPENING_END_PLY == 12
MIDDLEGAME_END_PLY == 60

RECURSIVE SumSeq(_)
SumSeq(s) == IF s = << >> THEN 0 ELSE Head(s) + SumSeq(Tail(s))

\* EngineEvaluation.score_cp
ScoreCp(e) == IF e.kind = "cp" THEN <<e.v>> ELSE << >>

PlayerColor(m) == IF m.ply_index % 2 = 0 THEN "white" ELSE "black"

\* _get_cp_loss
GetCpLoss(m) ==
    IF m.eval_before_cp = << >> \/ m.eval_after_cp = << >> THEN 0
    ELSE IF m.ply_index % 2 = 0
         THEN Max(0, m.eval_before_cp[1] - m.eval_after_cp[1])
         ELSE Max(0, m.eval_after_cp[1] - m.eval_before_cp[1])

\* k * math.log10(1 + cp_loss) with k = 28.85, in 1/10000, for the losses the
\* sampled evaluations produce
ScoreDrop(cp_loss) ==
    CASE cp_loss = 10 -> 300442
      [] cp_loss = 20 -> 381460
      [] cp_loss = 30 -> 430258
      [] cp_loss = 40 -> 465288
      [] cp_loss = 50 -> 492634
      [] cp_loss = 60 -> 515068
      [] cp_loss = 70 -> 534088
      [] cp_loss = 80 -> 550598
      [] cp_loss = 100 -> 578247
      [] cp_loss = 120 -> 600884
      [] cp_loss = 3000 -> 1003191
      [] cp_loss = 3020 -> 1004023
      [] cp_loss = 3050 -> 1005262
      [] cp_loss = 3060 -> 1005672
      [] cp_loss = 3100 -> 1007298
      [] cp_loss = 3120 -> 1008104

\* _cp_loss_to_score, in 1/10000
CpLossToScore(cp_loss) ==
    IF cp_loss <= 0 THEN 1000000
    ELSE Max(0, Min(1000000, 1000000 - ScoreDrop(cp_loss)))

NotBook(m) == ~m.is_book

\* compute_accuracy, in 1/100
ComputeAccuracy(moves) ==
    IF moves = << >> THEN 0
    ELSE LET non_book_moves == SelectSeq(moves, NotBook)
             n == Len(non_book_moves)
             total_score == SumSeq([i \in 1..n |-> CpLossToScore(GetCpLoss(non_book_moves[i]))])
         IN  IF n = 0 THEN 10000
             ELSE (2 * total_score + 100 * n) \div (200 * n)

\* _compute_cpl
ComputeCpl(player_color, eval_best_cp, eval_after_cp) ==
    IF eval_best_cp = << >> \/ eval_after_cp = << >> THEN << >>
    ELSE <<Max(0, IF player_color = "white" THEN eval_best_cp[1] - eval_after_cp[1]
                                            ELSE eval_after_cp[1] - eval_best_cp[1])>>

\* the moves _compute_acpl counts, were book moves counted as well
AcplCounted_WithBook(m) == m.eval_best_cp # << >> /\ m.eval_after_cp # << >>

\* the moves _compute_acpl counts
AcplCounted(m) == ~m.is_book /\ m.eval_best_cp # << >> /\ m.eval_after_cp # << >>

\* _compute_acpl: the sum and the number of the losses; count 0 stands for None
ComputeAcpl(moves) ==
    LET counted == SelectSeq(moves, AcplCounted)
    IN  [ sum |-> SumSeq([i \in 1..Len(counted) |->
                            ComputeCpl(PlayerColor(counted[i]), counted[i].eval_best_cp,
                                       counted[i].eval_after_cp)[1]]),
          count |-> Len(counted) ]

CountClass(moves, classification) ==
    Cardinality({i \in 1..Len(moves) : moves[i].classification = classification})

\* _estimate_performance_elo from step C on: the estimate from the ACPL curve
\* and the penalties, bounded, capped and truncated.  acpl is [sum, count]
\* with count > 0; estimated_elo is est / den until it is bounded.
EloFromAcpl(acpl, moves, opponent_elo) ==
    LET n == acpl.count
        S == acpl.sum
        num_moves == Len(moves)
        blunders == CountClass(moves, "BLUNDER")
        mistakes == CountClass(moves, "MISTAKE")
        \* base_elo * n
        base == IF S <= 10 * n THEN 2600 * n - 30 * S
                ELSE IF S <= 30 * n THEN 2300 * n - 15 * (S - 10 * n)
                ELSE IF S <= 50 * n THEN 2000 * n - 15 * (S - 30 * n)
                ELSE IF S <= 100 * n THEN 1700 * n - 10 * (S - 50 * n)
                ELSE 1200 * n - 4 * (S - 100 * n)
        \* penalty * num_moves
        penalty == 40 * 150 * blunders + 40 * 50 * mistakes
        den == n * num_moves
        est == base * num_moves - penalty * n
        bounded == IF est <= 500 * den THEN 500
                   ELSE IF est >= 3000 * den THEN 3000
                   ELSE est \div den
    IN  IF opponent_elo # << >> THEN Min(bounded, opponent_elo[1] + MAX_DIFF)
        ELSE bounded

\* _estimate_performance_elo(accuracy, moves, opponent_elo); the accuracy is
\* not used
EstimatePerformanceElo(moves, opponent_elo) ==
    IF Len(moves) < MIN_PLIES THEN 1500
    ELSE LET acpl == ComputeAcpl(moves)
         IN  IF acpl.count = 0 THEN 1500
             ELSE EloFromAcpl(acpl, moves, opponent_elo)

\* The game under analysis: its length in plies, the ratings of its headers,
\* the evaluation of its first position, and for ply i what the engine and
\* the board give there: game.book on the first OPENING_BOOK_PLIES plies,
\* game.kinds[i % 3] after them.
PlyOf(game, i) == IF i < OPENING_BOOK_PLIES THEN game.book ELSE game.kinds[i % 3]

EvalBefore(game, i) == IF i = 0 THEN game.first ELSE PlyOf(game, i - 1).eval_user

\* one pass of the loop of analyze_game: the MoveAnalysis of ply i
AnalyzedMove(game, i) ==
    LET ply == PlyOf(game, i)
        is_book == i < OPENING_BOOK_PLIES
        classification ==
            ClassifyMove([ is_book |-> is_book,
                           is_best_move |-> ply.is_best_move,
                           engine |-> TRUE,
                           side |-> IF i % 2 = 0 THEN "white" ELSE "black",
                           eval_best |-> ply.eval_best,
                           eval_user |-> ply.eval_user,
                           probe |-> ply.probe,
                           board |-> BoardFromFen(ply.board) ])
    IN  [ ply_index |-> i,
          eval_before_cp |-> ScoreCp(EvalBefore(game, i)),
          eval_best_cp |-> ScoreCp(ply.eval_best),
          eval_after_cp |-> ScoreCp(ply.eval_user),
          classification |-> classification,
          is_book |-> is_book,
          is_critical |-> classification = "CRITICAL",
          is_brilliant |-> classification = "BRILLIANT" ]

IsWhiteMove(m) == m.ply_index % 2 = 0
IsBlackMove(m) == m.ply_index % 2 = 1

\* analyze_game: the GameAnalysisResult
AnalyzeGame(game) ==
    LET moves_analysis == [i \in 1..game.plies |-> AnalyzedMove(game, i - 1)]
        white_moves == SelectSeq(moves_analysis, IsWhiteMove)
        black_moves == SelectSeq(moves_analysis, IsBlackMove)
    IN  [ moves |-> moves_analysis,
          accuracy_white |-> ComputeAccuracy(white_moves),
          accuracy_black |-> ComputeAccuracy(black_moves),
          perf_elo_white |-> EstimatePerformanceElo(white_moves, game.black_elo),
          perf_elo_black |-> EstimatePerformanceElo(black_moves, game.white_elo) ]

\* the Move row save_analysis_to_db adds for a MoveAnalysis
SavedMove(m) ==
    [ ply_index |-> m.ply_index,
      player_color |-> PlayerColor(m),
      eval_before_cp |-> m.eval_before_cp,
      eval_best_cp |-> m.eval_best_cp,
      eval_after_cp |-> m.eval_after_cp,
      cpl |-> ComputeCpl(PlayerColor(m), m.eval_best_cp, m.eval_after_cp),
      classification |-> m.classification,
      is_book |-> m.is_book,
      is_critical |-> m.is_critical,
      is_brilliant |-> m.is_brilliant ]

\* _phase_from_ply
PhaseFromPly(ply_index) ==
    IF ply_index + 1 <= OPENING_END_PLY THEN "opening"
    ELSE IF ply_index + 1 <= MIDDLEGAME_END_PLY THEN "middlegame"
    ELSE "endgame"

MoveCpl(m) == ComputeCpl(PlayerColor(m), m.eval_best_cp, m.eval_after_cp)

\* an average _avg(sum, count) as the pair; count 0 stands for None
Avg(moves, S) ==
    [ sum |-> SumSeq([i \in 1..Len(moves) |-> IF i \in S THEN MoveCpl(moves[i])[1] ELSE 0]),
      count |-> Cardinality(S) ]

\* _compute_game_analytics: the columns of the GameAnalytics row
ComputeGameAnalytics(moves) ==
    LET all == 1..Len(moves)
        \* "if not move.is_book and cpl is not None"
        counted == {i \in all : ~moves[i].is_book /\ MoveCpl(moves[i]) # << >>}
        InPhase(phase) == {i \in counted : PhaseFromPly(moves[i].ply_index) = phase}
        OfColor(color) == {i \in counted : PlayerColor(moves[i]) = color}
        Bucket(lo, hi) == Cardinality({i \in counted : /\ MoveCpl(moves[i])[1] > lo
                                                       /\ MoveCpl(moves[i])[1] <= hi})
        critical == {i \in all : moves[i].is_critical}
        critical_scored == {i \in critical : MoveCpl(moves[i]) # << >>}
        Errors(color, classification) ==
            Cardinality({i \in all : /\ PlayerColor(moves[i]) = color
                                     /\ moves[i].classification = classification})
    IN  [ acpl_overall |-> Avg(moves, counted),
          acpl_opening |-> Avg(moves, InPhase("opening")),
          acpl_middlegame |-> Avg(moves, InPhase("middlegame")),
          acpl_endgame |-> Avg(moves, InPhase("endgame")),
          cpl_distribution |->
              [ b0_20 |-> Bucket(-1, 20), b20_50 |-> Bucket(20, 50),
                b50_100 |-> Bucket(50, 100), b100_200 |-> Bucket(100, 200),
                b200_plus |-> Cardinality({i \in counted : MoveCpl(moves[i])[1] > 200}),
                total |-> Cardinality(counted) ],
          critical_faced |-> Cardinality(critical),
          critical_solved |-> Cardinality({i \in critical_scored : MoveCpl(moves[i])[1] = 0}),
          critical_failed |-> Cardinality({i \in critical_scored : MoveCpl(moves[i])[1] # 0}),
          acpl_critical |-> Avg(moves, critical_scored),
          acpl_white |-> Avg(moves, OfColor("white")),
          acpl_black |-> Avg(moves, OfColor("black")),
          blunders_white |-> Errors("white", "BLUNDER"),
          blunders_black |-> Errors("black", "BLUNDER"),
          mistakes_white |-> Errors("white", "MISTAKE"),
          mistakes_black |-> Errors("black", "MISTAKE"),
          inaccuracies_white |-> Errors("white", "INACCURACY"),
          inaccuracies_black |-> Errors("black", "INACCURACY") ]

(***************************************************************************)
(* SpecAnalyze: one game is analysed and its analysis saved.               *)
(***************************************************************************)
MaxPlies == 40

AnalysedLengths == {0, 1, 13, 19, 20, 39, MaxPlies}

EloSamples == {<< >>, <<0>>, <<1000>>}

FlatProbe == [fails |-> FALSE, mate |-> FALSE, pv_eval |-> <<Cp(30), Cp(20), Cp(10)>>]

SharpProbe ==
    [fails |-> FALSE, mate |-> FALSE,
     pv_eval |-> <<Cp(300), Cp(100), Cp(50), Cp(0), Cp(-50)>>]

QuietBoard == BoardOf(FALSE, 30, FALSE, 0, 8, 39, Scored(Cp(0)))

Ply(is_best_move, eval_best, eval_user, probe) ==
    [ is_best_move |-> is_best_move, eval_best |-> eval_best, eval_user |-> eval_user,
      probe |-> probe, board |-> QuietBoard ]

\* evaluations are from White's perspective
PlySamples ==
    { Ply(TRUE, Cp(20), Cp(20), FlatProbe),        \* the best move, quiet
      Ply(FALSE, Cp(0), Cp(-3000), FlatProbe),     \* loses 3000 cp if White's
      Ply(FALSE, Cp(0), Cp(120), FlatProbe),       \* loses 120 cp if Black's
      Ply(FALSE, Mate(2), Cp(50), FlatProbe),      \* White had a mate in 2
      Ply(TRUE, Cp(100), Cp(60), SharpProbe),      \* the only good move, if White's
      Ply(TRUE, Cp(100), Cp(100), SharpProbe),     \* the same, evaluated alike twice
      Ply(FALSE, Cp(0), Mate(-3), FlatProbe) }     \* lets Black mate in 3

BookSamples ==
    { Ply(TRUE, Cp(20), Cp(20), FlatProbe), Ply(FALSE, Cp(0), Cp(-3000), FlatProbe) }

AnalyzeGames ==
    [ plies : AnalysedLengths,
      book : BookSamples,
      kinds : [0..2 -> PlySamples],
      first : {Cp(20)},
      white_elo : EloSamples,
      black_elo : EloSamples ]

AnalyzeInit ==
    /\ engine = EngineIdle /\ imp = ImpIdle
    /\ sched = SchedIdle /\ cls = ClsIdle /\ db = EmptyDb /\ sel = SelIdle
    /\ gen = GenIdle /\ batch = BatchIdle /\ ui = UiIdle /\ hist = HistIdle
    /\ \E game \in AnalyzeGames : ana = [ pc |-> "new", game |-> game ]

\* analyzer.analyze_game(game)
AnalyzeGameCall ==
    /\ ana.pc = "new"
    /\ ana' = [ pc |-> "analysed", game |-> ana.game, result |-> AnalyzeGame(ana.game) ]
    /\ UNCHANGED <<engine, imp, sched, cls, db, sel, gen, batch, ui, hist>>

\* save_analysis_to_db(session, game, result): the Analysis columns, the Move
\* rows and the GameAnalytics row it commits
SaveAnalysisCall ==
    /\ ana.pc = "analysed"
    /\ ana' = [ pc |-> "saved", game |-> ana.game, result |-> ana.result,
                analysis |-> [ accuracy_white |-> ana.result.accuracy_white,
                               accuracy_black |-> ana.result.accuracy_black,
                               perf_elo_white |-> ana.result.perf_elo_white,
                               perf_elo_black |-> ana.result.perf_elo_black ],
                moves |-> [i \in 1..Len(ana.result.moves) |-> SavedMove(ana.result.moves[i])],
                analytics |-> ComputeGameAnalytics(ana.result.moves) ]
    /\ UNCHANGED <<engine, imp, sched, cls, db, sel, gen, batch, ui, hist>>

AnalyzeNext == AnalyzeGameCall \/ SaveAnalysisCall

SpecAnalyze == AnalyzeInit /\ [][AnalyzeNext]_vars

(***************************************************************************)
(* SpecSelect: one select_practice_items call on a store of up to          *)
(* MaxSelItems items, each of any sampled category, with no progress row   *)
(* or one of any sampled streak and due date.                              *)
(***************************************************************************)
MaxSelItems == 3
MaxLimit == 2
SelNow == 1

SelCategories == {"BLUNDER", "MISTAKE"}

SelItem(id, category) ==
    [ id |-> id, source_game_id |-> 1, source_ply_index |-> 11 + id,
      start_ply |-> 9 + id, side_to_move |-> IF id % 2 = 0 THEN "black" ELSE "white",
      target |-> <<1, 9 + id>>, category |-> category, run |-> 1 ]

SelProgress(id, streak, due) ==
    ProgressRow(id, id, 1,
                [ FreshProgress(due) EXCEPT !.consecutive_first_try = streak,
                                            !.attempts_total = streak,
                                            !.attempts_first_try_correct = streak,
                                            !.repetitions = streak ])

\* what the store may hold for one item id: nothing, or the item with no
\* progress row, or the item with one progress row
SelSlots(id) ==
    {[items |-> {}, progress |-> {}]}
        \cup {[items |-> {SelItem(id, c)}, progress |-> {}] : c \in SelCategories}
        \cup {[items |-> {SelItem(id, c)}, progress |-> {SelProgress(id, k, d)}] :
                c \in SelCategories, k \in {0, 3}, d \in {0, 2}}

SelectInit ==
    /\ engine = EngineIdle /\ imp = ImpIdle
    /\ ana = AnaIdle
    /\ sched = SchedIdle
    /\ cls = ClsIdle
    /\ sel = SelIdle
    /\ gen = GenIdle /\ batch = BatchIdle /\ ui = UiIdle /\ hist = HistIdle
    /\ \E slots \in [1..MaxSelItems -> UNION {SelSlots(i) : i \in 1..MaxSelItems}] :
        /\ \A i \in 1..MaxSelItems : slots[i] \in SelSlots(i)
        /\ db = [ EmptyDb EXCEPT
                    !.items = UNION {slots[i].items : i \in 1..MaxSelItems},
                    !.progress = UNION {slots[i].progress : i \in 1..MaxSelItems} ]

SelectCall ==
    /\ ~sel.done
    /\ \E categories \in SUBSET SelCategories, limit \in 0..MaxLimit, due_only \in BOOLEAN :
        \E out \in SelectPracticeItems(db.items, db.progress, categories, limit,
                                       due_only, SelNow) :
            sel' = [ done |-> TRUE, categories |-> categories, limit |-> limit,
                     due_only |-> due_only, out |-> out ]
    /\ UNCHANGED <<engine, imp, sched, cls, ana, db, gen, batch, ui, hist>>

SelectNext == SelectCall

SpecSelect == SelectInit /\ [][SelectNext]_vars

(***************************************************************************)
(* SpecGen: generate_practice_items run again and again for one game with  *)
(* the same analysis result and an engine that answers the same way each   *)
(* time, on a store left by earlier analyses and practice.                 *)
(***************************************************************************)
MaxGenerations == 3
StoreNow == 0

AllLines == [p \in StartPlies |-> "line"]

\* the store after one batch step for game_id with result, the engine giving
\* a PV everywhere
Analysed(d, game_id, result, run) ==
    GeneratePracticeItems(SaveAnalysisToDb(d, game_id, result, run),
                          game_id, result, AllLines, run, StoreNow).db

\* the store after every item has been solved once at the first try
Practised(d) ==
    [ d EXCEPT !.progress =
        { ProgressRow(p.id, p.practice_item_id, p.run,
                      UpdatePracticeProgress(Scheduling(p), "PASS_FIRST_TRY", TRUE, StoreNow)) :
            p \in d.progress } ]

GenStores ==
    LET analysed == { Analysed(Analysed(EmptyDb, 1, r1, 1), NumGames, r2, 2) :
                        r1 \in AnalysisResults, r2 \in AnalysisResults }
    IN  {EmptyDb} \cup analysed \cup { Practised(d) : d \in analysed }

GenInit ==
    /\ engine = EngineIdle /\ imp = ImpIdle
    /\ ana = AnaIdle
    /\ sched = SchedIdle /\ cls = ClsIdle /\ sel = SelIdle
    /\ batch = BatchIdle /\ ui = UiIdle /\ hist = HistIdle
    /\ db \in GenStores
    /\ \E game_id \in Games, result \in AnalysisResults,
          eng \in [StartPlies -> {"line", "empty"}] :
        gen = [ count |-> 0, game_id |-> game_id, result |-> result, eng |-> eng,
                once |-> {} ]

\* what C4 compares of an item
ItemContent(it) ==
    [ source_ply_index |-> it.source_ply_index, start_ply |-> it.start_ply,
      side_to_move |-> it.side_to_move, target |-> it.target, category |-> it.category ]

GenerateCall ==
    /\ gen.count < MaxGenerations
    /\ LET out == GeneratePracticeItems(db, gen.game_id, gen.result, gen.eng, 3, StoreNow)
           after == IF out.ok THEN out.db ELSE db
       IN  /\ db' = after
           /\ gen' = [ gen EXCEPT
                         !.count = @ + 1,
                         !.once = IF gen.count = 0
                                  THEN { ItemContent(it) :
                                           it \in GameRows(after, gen.game_id).items }
                                  ELSE @ ]
    /\ UNCHANGED <<engine, imp, sched, cls, ana, sel, batch, ui, hist>>

GenNext == GenerateCall

SpecGen == GenInit /\ [][GenNext]_vars

(***************************************************************************)
(* The store under the batch worker, the single-game analysis worker and   *)
(* the practice screen.  Each action is one transaction, or one handler of *)
(* the screen, taken atomically; the workers are threads, so their         *)
(* transactions interleave with the screen's handlers.                     *)
(***************************************************************************)
MaxRuns == 2
MaxClicks == 2
MaxSessions == 1
SessionLength == 5

\* an id no row of the games table has
MissingId == NumGames + 1

\* the game_id of an error entry that belongs to no game of the list
NoGame == 0

\* the id lists a batch is started with: the ids selected in the library, some
\* of which may have been deleted since; without repetition
BatchLists ==
    LET Ids == Games \cup {MissingId}
    IN  {<< >>} \cup { <<g>> : g \in Ids }
            \cup { <<p[1], p[2]>> : p \in { q \in Ids \X Ids : q[1] # q[2] } }

\* the payloads of the worker's two signals
Progress(done, total, game_id) ==
    [ kind |-> "progress", done |-> done, total |-> total, game_id |-> game_id ]

Finished(analyzed_count, errors) ==
    [ kind |-> "finished", analyzed_count |-> analyzed_count, errors |-> errors ]

EmptySnap == GameRows(EmptyDb, 1)

BatchReady ==
    [ pc |-> "idle", ids |-> << >>, idx |-> 0, analyzed_count |-> 0, errors |-> << >>,
      result |-> << >>, run |-> 0, snap |-> EmptySnap, clean |-> TRUE,
      emitted |-> << >> ]

UiNew ==
    [ running |-> FALSE, items |-> << >>, current_index |-> 0, current_item |-> << >>,
      current_progress |-> << >>, attempts_on_item |-> 0, requeued_ids |-> {},
      timers |-> 0 ]

Init ==
    /\ engine = EngineIdle /\ imp = ImpIdle
    /\ ana = AnaIdle
    /\ sched = SchedIdle /\ cls = ClsIdle /\ sel = SelIdle /\ gen = GenIdle
    /\ db = EmptyDb
    /\ batch = BatchReady
    /\ ui = UiNew
    /\ hist = [ runs |-> [g \in Games |-> 0], clicks |-> 0, sessions |-> 0 ]

\* ghost: another writer committed while a batch step was between its commits
Touch(b) == IF b.pc = "saved" THEN [b EXCEPT !.clean = FALSE] ELSE b

\* ghost: the games the batch under way will still analyse
Reserved ==
    LET from == IF batch.pc = "saved" THEN batch.idx + 2 ELSE batch.idx + 1
    IN  { batch.ids[i] : i \in from..Len(batch.ids) }

\* the step of the loop that is next, and whether its game is in the store
BatchGameId == batch.ids[batch.idx + 1]

BatchAtGame(found) ==
    /\ batch.pc = "game"
    /\ batch.idx < Len(batch.ids)
    /\ (BatchGameId \in Games) = found

\* the end of a pass of the loop: idx moves on, and the finally clause emits
\* progress(idx, total, game_id)
PassDone(b) ==
    [ b EXCEPT !.pc = "game", !.idx = @ + 1, !.result = << >>,
               !.emitted = Append(@, Progress(b.idx + 1, Len(b.ids), b.ids[b.idx + 1])) ]

\* BatchAnalysisWorker.run up to the loop: an empty list ends the run with
\* finished(0, ["No games to analyze."]); otherwise the engine is started, and
\* a start that raises ends the run in the outer handlers with finished and
\* one more error entry
BatchStart ==
    /\ batch.pc = "idle"
    /\ \E ids \in BatchLists, engine_started \in BOOLEAN :
        /\ \A i \in 1..Len(ids) : ids[i] \in Games => hist.runs[ids[i]] < MaxRuns
        /\ batch' = IF ids = << >> \/ ~engine_started
                    THEN [ BatchReady EXCEPT !.pc = "done", !.ids = ids,
                                             !.errors = <<NoGame>>,
                                             !.emitted = <<Finished(0, <<NoGame>>)>> ]
                    ELSE [ BatchReady EXCEPT !.pc = "game", !.ids = ids ]
    /\ UNCHANGED <<engine, imp, sched, cls, ana, sel, gen, db, ui, hist>>

\* one game of the loop, up to the commit inside save_analysis_to_db
BatchAnalyzeSave ==
    /\ BatchAtGame(TRUE)
    /\ \E result \in AnalysisResults :
        LET game_id == batch.ids[batch.idx + 1]
            run == hist.runs[game_id] + 1
        IN  /\ db' = SaveAnalysisToDb(db, game_id, result, run)
            /\ batch' = [ batch EXCEPT !.pc = "saved", !.result = result, !.run = run,
                                       !.snap = GameRows(db, game_id), !.clean = TRUE ]
            /\ hist' = [ hist EXCEPT !.runs[game_id] = run ]
    /\ UNCHANGED <<engine, imp, sched, cls, ana, sel, gen, ui>>

\* one game of the loop: analyze_game or save_analysis_to_db raises, the
\* session is rolled back
BatchAnalyzeFail ==
    /\ BatchAtGame(TRUE)
    /\ batch' = PassDone([ batch EXCEPT !.errors = Append(@, BatchGameId) ])
    /\ hist' = [ hist EXCEPT !.runs[batch.ids[batch.idx + 1]] = @ + 1 ]
    /\ UNCHANGED <<engine, imp, sched, cls, ana, sel, gen, db, ui>>

\* the rest of the game's step: generate_practice_items and session.commit()
BatchGenerateCommit ==
    /\ batch.pc = "saved"
    /\ \E eng \in [StartPlies -> EngineOutcomes] :
        LET out == GeneratePracticeItems(db, batch.ids[batch.idx + 1], batch.result,
                                         eng, batch.run, StoreNow)
        IN  /\ out.ok
            /\ db' = out.db
    /\ batch' = PassDone([ batch EXCEPT !.analyzed_count = @ + 1 ])
    /\ UNCHANGED <<engine, imp, sched, cls, ana, sel, gen, ui, hist>>

\* the rest of the game's step: generate_practice_items or the commit raises,
\* session.rollback()
BatchGenerateRollback ==
    /\ batch.pc = "saved"
    /\ \E eng \in [StartPlies -> EngineOutcomes] :
        ~GeneratePracticeItems(db, batch.ids[batch.idx + 1], batch.result,
                               eng, batch.run, StoreNow).ok
    /\ batch' = PassDone([ batch EXCEPT !.errors = Append(@, BatchGameId) ])
    /\ UNCHANGED <<engine, imp, sched, cls, ana, sel, gen, db, ui, hist>>

\* one game of the loop whose id is not in the store: the error entry,
\* progress.emit and continue, which leaves the try through its finally
\* clause, where progress.emit runs again
BatchNotFound ==
    /\ BatchAtGame(FALSE)
    /\ batch' = PassDone([ batch EXCEPT
                              !.errors = Append(@, BatchGameId),
                              !.emitted = Append(@, Progress(batch.idx + 1, Len(batch.ids),
                                                             BatchGameId)) ])
    /\ UNCHANGED <<engine, imp, sched, cls, ana, sel, gen, db, ui, hist>>

\* the loop is over: finished.emit(analyzed_count, errors)
BatchFinish ==
    /\ batch.pc = "game" /\ batch.idx = Len(batch.ids)
    /\ batch' = [ batch EXCEPT !.pc = "done",
                               !.emitted = Append(@, Finished(batch.analyzed_count,
                                                              batch.errors)) ]
    /\ UNCHANGED <<engine, imp, sched, cls, ana, sel, gen, db, ui, hist>>

\* the finally clause stops the engine and run() returns; the library screen
\* can start the next batch
BatchExit ==
    /\ batch.pc = "done"
    /\ batch' = BatchReady
    /\ UNCHANGED <<engine, imp, sched, cls, ana, sel, gen, db, ui, hist>>

\* AnalysisWorker.run on its success path: analyze_game, then
\* save_analysis_to_db and its commit
AnalysisWorkerRun ==
    /\ batch.pc # "off"
    /\ \E game_id \in Games, result \in AnalysisResults :
        /\ hist.runs[game_id] + (IF game_id \in Reserved THEN 1 ELSE 0) < MaxRuns
        /\ db' = SaveAnalysisToDb(db, game_id, result, hist.runs[game_id] + 1)
        /\ hist' = [ hist EXCEPT !.runs[game_id] = @ + 1 ]
    /\ batch' = Touch(batch)
    /\ UNCHANGED <<engine, imp, sched, cls, ana, sel, gen, ui>>

\* _end_session, on the fields kept here
EndSession(u) == [ u EXCEPT !.running = FALSE ]

\* _load_current_item
LoadCurrentItem(u, d) ==
    IF u.current_index >= Len(u.items) THEN EndSession(u)
    ELSE LET item == u.items[u.current_index + 1]
             rows == { p \in d.progress : p.practice_item_id = item.id }
         IN  [ u EXCEPT !.current_item = <<item>>,
                        !.attempts_on_item = 0,
                        !.current_progress =
                            IF rows = {} THEN << >> ELSE <<CHOOSE p \in rows : TRUE>> ]

\* session.merge(row) and session.commit(): UPDATE of the row with this id if
\* there is one, INSERT otherwise; either fails on a second row with the same
\* practice_item_id
Merge(d, row) ==
    LET others == { p \in d.progress : p.id # row.id }
    IN  IF \E p \in others : p.practice_item_id = row.practice_item_id
        THEN [ ok |-> FALSE, db |-> d ]
        ELSE [ ok |-> TRUE, db |-> [ d EXCEPT !.progress = others \cup {row} ] ]

\* "self.current_item.id not in self.requeued_ids", the guard of both appends
\* to self.items
NotRequeued_Always(u, item) == TRUE

NotRequeued(u, item) == item.id \notin u.requeued_ids

\* _complete_item: [ui, db] after it
CompleteItem(u, d, now) ==
    IF u.current_item = << >> \/ u.current_progress = << >> THEN [ ui |-> u, db |-> d ]
    ELSE LET first_try == u.attempts_on_item = 1
             result == IF first_try THEN "PASS_FIRST_TRY" ELSE "PASS"
             old == u.current_progress[1]
             row == ProgressRow(old.id, old.practice_item_id, old.run,
                                UpdatePracticeProgress(Scheduling(old), result,
                                                       first_try, now))
             u1 == [ u EXCEPT !.current_progress = <<row>> ]
             merged == Merge(d, row)
             item == u.current_item[1]
             requeue == NotRequeued(u, item) /\ u.attempts_on_item > 1
             u2 == [ u1 EXCEPT !.current_index = @ + 1,
                               !.items = IF requeue THEN Append(@, item) ELSE @,
                               !.requeued_ids = IF requeue THEN @ \cup {item.id} ELSE @ ]
         IN  IF ~merged.ok THEN [ ui |-> u1, db |-> d ]
             ELSE [ ui |-> LoadCurrentItem(u2, merged.db), db |-> merged.db ]

\* _start_session with the screen's default settings
UiStartSession ==
    /\ batch.pc # "off"
    /\ ~ui.running
    /\ hist.sessions < MaxSessions
    /\ \E out \in SelectPracticeItems(db.items, db.progress, DefaultCategories,
                                      SessionLength, FALSE, StoreNow) :
        IF out = << >>
        THEN /\ ui' = [ ui EXCEPT !.items = << >> ]
             /\ hist' = hist
        ELSE /\ ui' = LoadCurrentItem([ ui EXCEPT !.items = out, !.current_index = 0,
                                                  !.requeued_ids = {}, !.running = TRUE ],
                                      db)
             /\ hist' = [ hist EXCEPT !.sessions = @ + 1 ]
    /\ UNCHANGED <<engine, imp, sched, cls, ana, sel, gen, db, batch>>

\* _evaluate_move, the move being right or wrong
UiEvaluateMove ==
    /\ batch.pc # "off"
    /\ ui.current_item # << >>
    /\ hist.clicks < MaxClicks
    /\ \E is_correct \in BOOLEAN :
        LET u == [ ui EXCEPT !.attempts_on_item = @ + 1 ]
            item == ui.current_item[1]
            done == CompleteItem(u, db, StoreNow)
        IN  IF ~is_correct
            THEN /\ ui' = [ u EXCEPT
                              !.items = IF NotRequeued(u, item)
                                        THEN Append(@, item) ELSE @,
                              !.requeued_ids = @ \cup {item.id},
                              !.timers = @ + 1 ]
                 /\ UNCHANGED <<db, batch>>
            ELSE /\ ui' = done.ui
                 /\ db' = done.db
                 /\ batch' = IF done.db # db THEN Touch(batch) ELSE batch
    /\ hist' = [ hist EXCEPT !.clicks = @ + 1 ]
    /\ UNCHANGED <<engine, imp, sched, cls, ana, sel, gen>>

\* _advance_after_wrong, when a timer set by a wrong move fires
UiAdvanceAfterWrong ==
    /\ batch.pc # "off"
    /\ ui.timers > 0
    /\ LET u == [ ui EXCEPT !.timers = @ - 1 ]
           current_id == IF u.current_item = << >> THEN 0 ELSE u.current_item[1].id
           candidates == { i \in 1..Len(u.items) : u.items[i].id # current_id }
       IN  IF u.items = << >> THEN ui' = u
           ELSE IF Len(u.items) = 1 \/ candidates = {} THEN ui' = LoadCurrentItem(u, db)
           ELSE \E i \in candidates :
                    ui' = [ u EXCEPT !.current_item = <<u.items[i]>>,
                                     !.attempts_on_item = 0 ]
    /\ UNCHANGED <<engine, imp, sched, cls, ana, sel, gen, db, batch, hist>>

\* the End button
UiEndSession ==
    /\ batch.pc # "off"
    /\ ui.running
    /\ ui' = EndSession(ui)
    /\ UNCHANGED <<engine, imp, sched, cls, ana, sel, gen, db, batch, hist>>

\* Spec: the two analysis workers on the store.
Next ==
    \/ BatchStart
    \/ BatchAnalyzeSave
    \/ BatchAnalyzeFail
    \/ BatchGenerateCommit
    \/ BatchGenerateRollback
    \/ BatchNotFound
    \/ BatchFinish
    \/ BatchExit
    \/ AnalysisWorkerRun

Spec == Init /\ [][Next]_vars

\* SpecPractice: the batch worker and the practice screen on the store.  The
\* application opens on the store an earlier execution left: here every game
\* has been analysed once by the batch worker.
PracticeStores ==
    { Analysed(Analysed(EmptyDb, 1, r1, 1), NumGames, r2, 1) :
        r1 \in AnalysisResults, r2 \in AnalysisResults }

PracticeInit ==
    /\ engine = EngineIdle /\ imp = ImpIdle
    /\ ana = AnaIdle
    /\ sched = SchedIdle /\ cls = ClsIdle /\ sel = SelIdle /\ gen = GenIdle
    /\ db \in PracticeStores
    /\ batch = BatchReady
    /\ ui = UiNew
    /\ hist = [ runs |-> [g \in Games |-> 1], clicks |-> 0, sessions |-> 0 ]

\* One pass of the worker's loop for game_id, from get_session() to
\* session.close(), with analyze_game succeeding and the engine giving a PV
\* for every start position.  The screen reads and writes practice_items and
\* practice_progress only, which the pass touches in its second transaction
\* only, so for the screen the pass is one step; and a batch over several
\* games is a sequence of such passes.
BatchGameStep ==
    /\ batch.pc = "idle"
    /\ \E game_id \in Games, result \in AnalysisResults :
        /\ hist.runs[game_id] < MaxRuns
        /\ LET run == hist.runs[game_id] + 1
               saved == SaveAnalysisToDb(db, game_id, result, run)
               out == GeneratePracticeItems(saved, game_id, result, AllLines, run,
                                            StoreNow)
           IN  db' = IF out.ok THEN out.db ELSE saved
        /\ hist' = [ hist EXCEPT !.runs[game_id] = @ + 1 ]
    /\ UNCHANGED <<engine, imp, sched, cls, ana, sel, gen, batch, ui>>

PracticeNext ==
    \/ BatchGameStep
    \/ UiStartSession
    \/ UiEvaluateMove
    \/ UiAdvanceAfterWrong
    \/ UiEndSession

SpecPractice == PracticeInit /\ [][PracticeNext]_vars

(***************************************************************************)
(* The engine session (dco/core/engine.py) and the runs that own one.      *)
(*                                                                         *)
(* A ChessEngine object is kept as                                         *)
(*   handle    self.engine: "none" (None), "live" (a SimpleEngine whose    *)
(*             subprocess runs) or "dead" (a SimpleEngine whose subprocess *)
(*             has exited; the attribute still holds the object)           *)
(*   multipv   self.config.multipv                                         *)
(*   has_path  config.path is set and the file exists                      *)
(*   raised    whether the last call on it raised                          *)
(* and three ghosts: starts, the popen_uci calls made so far; running, the *)
(* subprocesses spawned and neither quit nor exited; used, the multipv     *)
(* value handed to each engine.analyse of the current step.                *)
(***************************************************************************)
DEFAULT_MULTIPV == 3
CRITICAL_MULTIPV == 5

StartOutcomes == {"ok", "popen_fails", "configure_fails"}
AnalyseOutcomes == {"ok", "exit"}

\* ChessEngine.__init__ on an EngineConfig
ChessEngine(multipv, has_path) ==
    [ handle |-> "none", multipv |-> multipv, has_path |-> has_path,
      raised |-> FALSE, starts |-> 0, running |-> 0, used |-> << >> ]

\* ChessEngine.start: nothing when a handle is held; RuntimeError when the
\* path is missing, when popen_uci fails (no handle is kept) or when
\* configure fails (the handle assigned just before is kept)
EngineStart(e, outcome) ==
    IF e.handle # "none" THEN [ e EXCEPT !.raised = FALSE ]
    ELSE IF ~e.has_path THEN [ e EXCEPT !.raised = TRUE ]
    ELSE IF outcome = "popen_fails"
         THEN [ e EXCEPT !.starts = @ + 1, !.raised = TRUE ]
         ELSE [ e EXCEPT !.handle = "live", !.starts = @ + 1, !.running = @ + 1,
                         !.raised = (outcome = "configure_fails") ]

\* ChessEngine.stop: quit() on the held handle, errors swallowed, handle dropped
EngineStop(e) ==
    IF e.handle = "none" THEN e
    ELSE [ e EXCEPT !.handle = "none",
                    !.running = IF e.handle = "live" THEN @ - 1 ELSE @ ]

\* ChessEngine.evaluate: start() only when no handle is held, then
\* engine.analyse with multipv = config.multipv; analyse raises when the
\* subprocess has exited or exits during the query
EngineEvaluate(e, start_outcome, outcome) ==
    LET s == IF e.handle = "none" THEN EngineStart(e, start_outcome)
             ELSE [ e EXCEPT !.raised = FALSE ]
        a == [ s EXCEPT !.used = Append(@, s.multipv) ]
    IN  IF s.raised THEN s
        ELSE IF s.handle = "dead" THEN [ a EXCEPT !.raised = TRUE ]
        ELSE IF outcome = "ok" THEN a
        ELSE [ a EXCEPT !.handle = "dead", !.running = @ - 1, !.raised = TRUE ]

\* engine.config.multipv = original_multipv, as written after the probe and
\* in the except clause of _is_critical_position
RestoreMultipv_Skip(e, original_multipv) == e

RestoreMultipv(e, original_multipv) == [ e EXCEPT !.multipv = original_multipv ]

\* the per-PV evaluations of _is_critical_position, up to the first that raises
RECURSIVE EvaluateEach(_, _, _)
EvaluateEach(e, outcomes, i) ==
    IF i > Len(outcomes) \/ e.raised THEN e
    ELSE EvaluateEach(EngineEvaluate(e, "ok", outcomes[i]), outcomes, i + 1)

\* the engine calls of _is_critical_position: multipv raised to 5, the probe,
\* multipv restored, one evaluation per PV line of the probe; any exception
\* ends in the except clause, which restores again and returns False.
\* outcomes[1] is the probe's outcome, the rest are the PV lines'.
CriticalPositionCalls(e, outcomes) ==
    LET original_multipv == e.multipv
        probe == EngineEvaluate([ e EXCEPT !.multipv = CRITICAL_MULTIPV ], "ok", outcomes[1])
        lines == EvaluateEach(RestoreMultipv(probe, original_multipv), outcomes, 2)
    IN  IF probe.raised
        THEN [ RestoreMultipv(probe, original_multipv) EXCEPT !.raised = FALSE ]
        ELSE IF lines.raised
             THEN [ RestoreMultipv(lines, original_multipv) EXCEPT !.raised = FALSE ]
             ELSE lines

(***************************************************************************)
(* SpecEngine: one analysis run and its engine.  owner is who runs it:     *)
(* "batch" (BatchAnalysisWorker.run), "single" (AnalysisWorker.run) or     *)
(* "with" (a with-block on ChessEngine).  op names the last step, before   *)
(* is config.multipv when that step began.                                 *)
(***************************************************************************)
MaxCalls == 3
MaxPvLines == 2

RunOwners == {"batch", "single", "with"}
MultipvSamples == {1, DEFAULT_MULTIPV}

ProbeOutcomes ==
    UNION { [1..n -> AnalyseOutcomes] : n \in 1..(1 + MaxPvLines) }

EngineRun(owner, e, pc, op, calls, before) ==
    [ owner |-> owner, pc |-> pc, op |-> op, calls |-> calls, before |-> before,
      handle |-> e.handle, multipv |-> e.multipv, has_path |-> e.has_path,
      raised |-> e.raised, starts |-> e.starts, running |-> e.running,
      used |-> e.used ]

EngineOf(r) ==
    [ handle |-> r.handle, multipv |-> r.multipv, has_path |-> r.has_path,
      raised |-> FALSE, starts |-> r.starts, running |-> r.running, used |-> << >> ]

EngineInit ==
    /\ sched = SchedIdle /\ cls = ClsIdle /\ ana = AnaIdle /\ db = EmptyDb
    /\ sel = SelIdle /\ gen = GenIdle /\ batch = BatchIdle /\ ui = UiIdle
    /\ hist = HistIdle /\ imp = ImpIdle
    /\ \E owner \in RunOwners, multipv \in MultipvSamples, has_path \in BOOLEAN :
          engine = EngineRun(owner, ChessEngine(multipv, has_path), "new", "init", 0, multipv)

\* how a run goes on after an exception of one of its steps: the batch
\* worker's outer handlers emit finished and its finally stops the engine
\* (a failure inside the per-game try is caught there and the loop goes on);
\* AnalysisWorker's except emits finished(False) and nothing else;
\* a with-block runs __exit__ unless __enter__ itself raised
AfterException(owner, e, entering) ==
    CASE owner = "batch"  -> IF entering THEN [ e |-> EngineStop(e), pc |-> "ended" ]
                             ELSE [ e |-> e, pc |-> "running" ]
      [] owner = "single" -> [ e |-> e, pc |-> "ended" ]
      [] owner = "with"   -> IF entering THEN [ e |-> e, pc |-> "ended" ]
                             ELSE [ e |-> EngineStop(e), pc |-> "ended" ]

\* the run creates its ChessEngine and starts it (engine.start(), __enter__)
RunStart ==
    /\ engine.pc = "new"
    /\ \E outcome \in StartOutcomes :
        LET e == EngineStart(EngineOf(engine), outcome)
            x == AfterException(engine.owner, e, TRUE)
        IN  engine' = IF e.raised
                      THEN EngineRun(engine.owner, x.e, x.pc, "start", 0, engine.multipv)
                      ELSE EngineRun(engine.owner, e, "running", "start", 0, engine.multipv)
    /\ UNCHANGED <<sched, cls, ana, db, sel, gen, batch, ui, hist, imp>>

\* one engine.evaluate of analyze_game or of the with-block's body
RunEvaluate ==
    /\ engine.pc = "running"
    /\ engine.calls < MaxCalls
    /\ \E start_outcome \in StartOutcomes, outcome \in AnalyseOutcomes :
        LET e == EngineEvaluate(EngineOf(engine), start_outcome, outcome)
            x == AfterException(engine.owner, e, FALSE)
        IN  engine' = IF e.raised
                      THEN EngineRun(engine.owner, x.e, x.pc, "evaluate",
                                     engine.calls + 1, engine.multipv)
                      ELSE EngineRun(engine.owner, e, "running", "evaluate",
                                     engine.calls + 1, engine.multipv)
    /\ UNCHANGED <<sched, cls, ana, db, sel, gen, batch, ui, hist, imp>>

\* one classify_move of analyze_game on a best move outside the book: the
\* engine calls it makes are those of _is_critical_position, which never raises
RunClassifyMove ==
    /\ engine.pc = "running"
    /\ engine.calls < MaxCalls
    /\ \E outcomes \in ProbeOutcomes :
        engine' = EngineRun(engine.owner, CriticalPositionCalls(EngineOf(engine), outcomes),
                            "running", "classify_move", engine.calls + 1, engine.multipv)
    /\ UNCHANGED <<sched, cls, ana, db, sel, gen, batch, ui, hist, imp>>

\* a step of the run that is no engine call raises while the run goes on:
\* analyze_game on a PGN it cannot read, save_analysis_to_db, session.commit,
\* the body of a with-block
RunRaise ==
    /\ engine.pc = "running"
    /\ engine.calls < MaxCalls
    /\ LET x == AfterException(engine.owner, EngineOf(engine), FALSE)
       IN  engine' = EngineRun(engine.owner, [ x.e EXCEPT !.raised = TRUE ], x.pc, "raise",
                               engine.calls + 1, engine.multipv)
    /\ UNCHANGED <<sched, cls, ana, db, sel, gen, batch, ui, hist, imp>>

\* the run ends without an exception: engine.stop() in the worker, __exit__
RunFinish ==
    /\ engine.pc = "running"
    /\ engine' = EngineRun(engine.owner, EngineStop(EngineOf(engine)), "ended", "stop",
                           engine.calls, engine.multipv)
    /\ UNCHANGED <<sched, cls, ana, db, sel, gen, batch, ui, hist, imp>>

EngineNext == RunStart \/ RunEvaluate \/ RunClassifyMove \/ RunRaise \/ RunFinish

SpecEngine == EngineInit /\ [][EngineNext]_vars

(***************************************************************************)
(* PGN import (dco/core/pgn_import.py).  A game of a PGN text is its       *)
(* White, Black and Date headers and its main line as a list of SAN        *)
(* tokens; a row of the games table keeps the same, moves_san being the    *)
(* tokens joined by blanks (SAN tokens hold no blank, so split() gives     *)
(* the list back).  The table is a sequence in id order.                   *)
(***************************************************************************)
DEDUP_PLIES == 10

PgnGame(white, black, date, moves) ==
    [ white |-> white, black |-> black, date |-> date, moves |-> moves ]

\* _create_game_from_pgn: the columns the duplicate check reads
GameFromPgn(g) ==
    [ white |-> g.white, black |-> g.black, date |-> g.date, moves_san |-> g.moves ]

\* moves[:10] of the candidate, moves_san.split()[:10] of a stored game
FirstPlies(moves) == SubSeq(moves, 1, Min(Len(moves), DEDUP_PLIES))

\* the filter of the query in _is_duplicate
SameHeaders(row, g) ==
    row.white = g.white /\ row.black = g.black /\ row.date = g.date

\* PGNImporter._is_duplicate on the committed rows: the query runs only when
\* the three headers are non-empty, .first() takes the matching row of
\* lowest id, and only that row's moves are compared
IsDuplicate(games, g) ==
    LET matching == { i \in 1..Len(games) : SameHeaders(games[i], g) }
        existing == games[CHOOSE i \in matching : \A j \in matching : i <= j]
    IN  /\ g.white # "" /\ g.black # "" /\ g.date # ""
        /\ matching # {}
        /\ existing.moves_san # << >>
        /\ FirstPlies(existing.moves_san) = FirstPlies(g.moves)

\* the games import_pgn_text adds to the session, in text order; the session
\* does not autoflush (db.py:55), so every check sees the committed rows only
RECURSIVE ImportedGames(_, _, _, _)
ImportedGames(games, text, skip_duplicates, i) ==
    IF i > Len(text) THEN << >>
    ELSE LET rest == ImportedGames(games, text, skip_duplicates, i + 1)
         IN  IF skip_duplicates /\ IsDuplicate(games, text[i]) THEN rest
             ELSE <<GameFromPgn(text[i])>> \o rest

\* PGNImporter.import_pgn_text: the table after the call and the list it
\* returns; a failing commit rolls back and returns no game
ImportPgnText(games, text, skip_duplicates, commit_ok) ==
    LET imported == ImportedGames(games, text, skip_duplicates, 1)
    IN  IF commit_ok
        THEN [ games |-> games \o imported, imported |-> imported ]
        ELSE [ games |-> games, imported |-> << >> ]

(***************************************************************************)
(* SpecImport: import_pgn_text calls on one store.                         *)
(***************************************************************************)
MaxImports == 2
MaxTextGames == 2

RuyLopez == <<"e4", "e5", "Nf3", "Nc6", "Bb5", "a6", "Ba4", "Nf6", "O-O", "Be7", "Re1">>
RuyLopezD3 == <<"e4", "e5", "Nf3", "Nc6", "Bb5", "a6", "Ba4", "Nf6", "O-O", "Be7", "d3">>
QueensPawn == <<"d4", "d5">>

PgnGames ==
    { PgnGame("Ann", "Bob", "2024.01.01", moves) :
          moves \in {RuyLopez, RuyLopezD3, QueensPawn, << >>} }
    \cup { PgnGame("Ann", "Bob", "2024.01.02", RuyLopez),
           PgnGame("", "Bob", "2024.01.01", RuyLopez) }

PgnTexts == UNION { [1..n -> PgnGames] : n \in 1..MaxTextGames }

ImportInit ==
    /\ sched = SchedIdle /\ cls = ClsIdle /\ ana = AnaIdle /\ db = EmptyDb
    /\ sel = SelIdle /\ gen = GenIdle /\ batch = BatchIdle /\ ui = UiIdle
    /\ hist = HistIdle /\ engine = EngineIdle
    /\ \E games \in {<< >>} \cup { <<GameFromPgn(g)>> : g \in PgnGames } :
          imp = [ pc |-> "ready", games |-> games, count |-> 0 ]

\* ImportWorker.run: one import_pgn_text on a fresh session
ImportCall ==
    /\ imp.pc # "off"
    /\ imp.count < MaxImports
    /\ \E text \in PgnTexts, skip_duplicates \in BOOLEAN, commit_ok \in BOOLEAN :
        LET r == ImportPgnText(imp.games, text, skip_duplicates, commit_ok)
        IN  imp' = [ pc |-> "imported", games |-> r.games, count |-> imp.count + 1,
                     before |-> imp.games, text |-> text,
                     skip_duplicates |-> skip_duplicates, imported |-> r.imported ]
    /\ UNCHANGED <<sched, cls, ana, db, sel, gen, batch, ui, hist, engine>>

ImportNext == ImportCall

SpecImport == ImportInit /\ [][ImportNext]_vars

(***************************************************************************)
(* Claims on the scheduler (SpecSched).                                    *)
(***************************************************************************)
LastResult == sched.hist[Len(sched.hist)]

RECURSIVE TrailingFirstTry(_)
TrailingFirstTry(h) ==
    IF h = << >> \/ h[Len(h)] # "PASS_FIRST_TRY" THEN 0
    ELSE 1 + TrailingFirstTry(SubSeq(h, 1, Len(h) - 1))

AllFirstTry(h) == \A i \in 1..Len(h) : h[i] = "PASS_FIRST_TRY"

\* C7: from any progress state, a Fail update gives interval 1, repetitions 0,
\* consecutive_first_try 0, one more lapse and ease = max(1.3, ease - 0.2) >= 1.3.
C7_FailUpdate ==
    (Len(sched.hist) > 0 /\ LastResult = "FAIL") =>
        /\ sched.p.interval_days = Days(1)
        /\ sched.p.repetitions = 0
        /\ sched.p.consecutive_first_try = 0
        /\ sched.p.lapses = sched.prev.lapses + 1
        /\ sched.p.ease_factor = Max(13, sched.prev.ease_factor - 2)
        /\ sched.p.ease_factor >= 13

\* A Fail applied to a record whose ease (1.4) is less than 0.2 above the floor.
C7_Witness ==
    /\ Len(sched.hist) > 0 /\ LastResult = "FAIL"
    /\ ~sched.fresh
    /\ sched.prev.ease_factor = 14
    /\ sched.prev.repetitions = 5

\* C8: from a fresh record, consecutive_first_try is the number of
\* PassFirstTry results since the last Pass or Fail, and the item is mastered
\* (consecutive_first_try >= 3) exactly when the last three results are all
\* PassFirstTry.
C8_Streak ==
    sched.fresh =>
        /\ sched.p.consecutive_first_try = TrailingFirstTry(sched.hist)
        /\ (sched.p.consecutive_first_try >= 3) <=>
               /\ Len(sched.hist) >= 3
               /\ AllFirstTry(SubSeq(sched.hist, Len(sched.hist) - 2, Len(sched.hist)))

\* Mastery reached after an interruption: Pass, then three first-try passes.
C8_Witness ==
    /\ sched.fresh
    /\ sched.hist = <<"PASS", "PASS_FIRST_TRY", "PASS_FIRST_TRY", "PASS_FIRST_TRY">>
    /\ sched.p.consecutive_first_try = 3

\* C9 as stated: from (repetitions 0, interval 1, ease 2.5) three PassFirstTry
\* updates give intervals 1, 6, 15.
C9_Original ==
    (sched.fresh /\ AllFirstTry(sched.hist)) =>
        /\ Len(sched.hist) = 1 => sched.p.interval_days = Days(1)
        /\ Len(sched.hist) = 2 => sched.p.interval_days = Days(6)
        /\ Len(sched.hist) = 3 => sched.p.interval_days = Days(15)

\* C9 amended: the intervals are 1, 6 and 16.2: the third is 6 * 2.7, the ease
\* having been raised by 0.1 by each of the two updates before it.
C9_Intervals ==
    (sched.fresh /\ AllFirstTry(sched.hist)) =>
        /\ Len(sched.hist) = 1 => sched.p.interval_days = Days(1)
        /\ Len(sched.hist) = 2 => sched.p.interval_days = Days(6)
        /\ Len(sched.hist) = 3 => sched.p.interval_days = <<162, 1>>

C9_Witness ==
    /\ sched.fresh
    /\ sched.hist = <<"PASS_FIRST_TRY", "PASS_FIRST_TRY", "PASS_FIRST_TRY">>
    /\ sched.p.repetitions = 3

(***************************************************************************)
(* Claims on the classifier (SpecClassify).                                *)
(***************************************************************************)
MateForMover(e, side) ==
    /\ e.kind = "mate"
    /\ IF side = "white" THEN e.v > 0 ELSE e.v < 0

\* C10: for every non-book move, by White or by Black, if the evaluation after
\* the best move is a forced mate for the mover and the evaluation after the
\* played move is not, classify_move returns Critical.
C10_MissedMateIsCritical ==
    ( /\ cls.out # NONE
      /\ ~cls.in.is_book
      /\ MateForMover(cls.in.eval_best, cls.in.side)
      /\ ~MateForMover(cls.in.eval_user, cls.in.side) )
        => cls.out = "CRITICAL"

MateForOpponent(e, side) ==
    /\ e.kind = "mate"
    /\ IF side = "white" THEN e.v < 0 ELSE e.v > 0

MoverSign == IF cls.in.side = "white" THEN 1 ELSE -1

\* C11: for every non-book move to which the missed-mate rule does not apply
\* (the evaluation after the best move is not a mate for the mover that the
\* played move gives up), if the evaluation after the played move is a forced
\* mate for the opponent, classify_move returns Blunder, whether or not the
\* played move is the engine's best move.
C11_AllowedMateIsBlunder ==
    ( /\ cls.out # NONE
      /\ ~cls.in.is_book
      /\ ~( /\ MateForMover(cls.in.eval_best, cls.in.side)
            /\ ~MateForMover(cls.in.eval_user, cls.in.side) )
      /\ MateForOpponent(cls.in.eval_user, cls.in.side) )
        => cls.out = "BLUNDER"

\* the loss D of C12: max(0, score_best - score_after) in the mover's
\* perspective, both scores changing sign for a Black mover
MoverLoss == Max(0, MoverSign * cls.in.eval_best.v - MoverSign * cls.in.eval_user.v)

\* C12: a non-book move that is not the engine's best move, with centipawn
\* scores after the best and after the played move, is classified by its loss
\* D: Excellent (or Brilliant) up to 15, Good up to 50, Inaccuracy up to 100,
\* Mistake up to 200, Blunder above.
C12_ClassByCpLoss ==
    ( /\ cls.out # NONE
      /\ ~cls.in.is_book
      /\ ~cls.in.is_best_move
      /\ cls.in.eval_best.kind = "cp"
      /\ cls.in.eval_user.kind = "cp" )
        => cls.out = ( IF MoverLoss <= 15
                       THEN (IF cls.out = "BRILLIANT" THEN "BRILLIANT" ELSE "EXCELLENT")
                       ELSE IF MoverLoss <= 50 THEN "GOOD"
                       ELSE IF MoverLoss <= 100 THEN "INACCURACY"
                       ELSE IF MoverLoss <= 200 THEN "MISTAKE"
                       ELSE "BLUNDER" )

C12_Witness ==
    /\ cls.out = "MISTAKE"
    /\ cls.in.side = "black"
    /\ ~cls.in.is_best_move
    /\ cls.in.eval_best.kind = "cp" /\ cls.in.eval_user.kind = "cp"
    /\ MoverLoss = 200

\* the engine was consulted by the classification
WithEngine == cls.via = "analyze_game" \/ cls.in.engine

\* The four conditions of the critical-position gate on the scores E1..E5 of
\* the five lines of the probe, in the mover's perspective.
GateEstablished ==
    LET pv == cls.in.probe.pv_eval
        E(i) == MoverSign * pv[i].v
    IN  /\ ~cls.in.probe.fails
        /\ Len(pv) >= 5
        /\ \A i \in 1..5 : pv[i].kind = "cp"
        /\ (Abs(E(1)) < 600 \/ cls.in.probe.mate)
        /\ E(1) - E(2) >= 120
        /\ 2 * E(1) - Median2(<<E(2), E(3), E(4), E(5)>>) >= 2 * 150
        /\ E(1) - E(5) >= 250

\* C13: a played best move (not a book move, the engine at hand) is labelled
\* Critical exactly when all four conditions of the gate are established on
\* the scores E1..E5 of the multi-PV=5 probe.
C13_CriticalGate ==
    ( /\ cls.out # NONE
      /\ ~cls.in.is_book
      /\ cls.in.is_best_move
      /\ WithEngine )
        => (cls.out = "CRITICAL" <=> GateEstablished)

\* the move recaptures, in the game, on the square of the preceding capture
RecaptureInGame ==
    /\ ~cls.in.board.stack_empty
    /\ cls.in.board.last_was_capture
    /\ cls.in.board.same_square
    /\ cls.in.board.target_occupied

\* C14: a move classified by analyze_game is never Brilliant if it recaptures
\* on the square of the immediately preceding capture, if it is the only
\* legal move, or if it gives check.
C14_ObviousMoveNotBrilliant ==
    ( /\ cls.via = "analyze_game"
      /\ \/ RecaptureInGame
         \/ cls.in.board.legal_moves <= 1
         \/ cls.in.board.gives_check )
        => cls.out # "BRILLIANT"

\* a recapture that leaves material en prise, played as the best move outside
\* the book and classified by analyze_game
C14_Witness ==
    /\ cls.via = "analyze_game"
    /\ RecaptureInGame
    /\ ~cls.in.is_book
    /\ cls.in.is_best_move
    /\ cls.in.board.legal_moves > 1
    /\ ~cls.in.board.gives_check
    /\ cls.in.board.material_before - cls.in.board.material_horizon >= 2
    /\ cls.out = "BEST"

\* the sacrifice persists: not won back to within 1 point when at least 4 PV
\* plies were played, and a deficit of at least 2 remains
SacrificePersists ==
    LET b == cls.in.board
    IN  /\ b.pv_moves_played >= 4 => b.material_horizon < b.material_before - 1
        /\ b.material_before - b.material_horizon >= 2

\* the depth + 5 re-evaluation is within 30 cp of the best evaluation, in the
\* mover's perspective
SacrificeConfirmed ==
    LET b == cls.in.board
    IN  /\ ~b.deeper.fails
        /\ b.deeper.eval.kind = "cp"
        /\ cls.in.eval_best.kind = "cp"
        /\ MoverSign * b.deeper.eval.v >= MoverSign * cls.in.eval_best.v - 30

\* C15: classify_move returns Brilliant only if the sacrifice persists and
\* the deeper re-evaluation confirms it.
C15_BrilliantOnlyIfSound ==
    cls.out = "BRILLIANT" => (SacrificePersists /\ SacrificeConfirmed)

\* a best move outside the book, not a recapture, not forced, not a check,
\* whose material is level again after the PV: classified, and not Brilliant
C15_Witness ==
    /\ cls.out = "BEST"
    /\ WithEngine
    /\ ~cls.in.is_book
    /\ cls.in.is_best_move
    /\ ~RecaptureInGame
    /\ cls.in.board.legal_moves > 1
    /\ ~cls.in.board.gives_check
    /\ ~SacrificePersists

(***************************************************************************)
(* Claims on the analysis of a game (SpecAnalyze).                         *)
(***************************************************************************)
SideMoves(side) ==
    IF side = "white" THEN SelectSeq(ana.result.moves, IsWhiteMove)
                      ELSE SelectSeq(ana.result.moves, IsBlackMove)

SideAccuracy(side) ==
    IF side = "white" THEN ana.result.accuracy_white ELSE ana.result.accuracy_black

SideElo(side) ==
    IF side = "white" THEN ana.result.perf_elo_white ELSE ana.result.perf_elo_black

OpponentElo(side) == IF side = "white" THEN ana.game.black_elo ELSE ana.game.white_elo

\* a move with other evaluations if it is a book move
OtherEvals(m) ==
    IF m.is_book
    THEN [m EXCEPT !.eval_before_cp = <<0>>, !.eval_best_cp = <<0>>, !.eval_after_cp = <<0>>]
    ELSE m

OtherBook(moves) == [i \in 1..Len(moves) |-> OtherEvals(moves[i])]

\* C16: a move is classified Book exactly when its is_book flag is true, that
\* is when its ply index is below the book prefix, whatever its evaluations;
\* and the evaluations of book moves contribute to none of the side's
\* accuracy, the ACPL of the Elo estimate, the CPL sums and the CPL histogram
\* of the analytics: all are what they would be with other evaluations on the
\* book moves, and the histogram counts the non-book moves with a CPL only.
C16_BookMovesExcluded ==
    ana.pc = "saved" =>
        /\ \A i \in 1..Len(ana.moves) :
              /\ (ana.moves[i].classification = "BOOK") <=> ana.moves[i].is_book
              /\ ana.moves[i].is_book <=> (ana.moves[i].ply_index < 12)
        /\ \A side \in {"white", "black"} :
              /\ SideAccuracy(side) = ComputeAccuracy(OtherBook(SideMoves(side)))
              /\ SideElo(side) = EstimatePerformanceElo(OtherBook(SideMoves(side)),
                                                        OpponentElo(side))
        /\ ana.analytics = ComputeGameAnalytics(OtherBook(ana.result.moves))
        /\ ana.analytics.cpl_distribution.total =
              Cardinality({i \in 1..Len(ana.moves) :
                              ~ana.moves[i].is_book /\ ana.moves[i].cpl # << >>})
        /\ ana.analytics.acpl_overall.count = ana.analytics.cpl_distribution.total

\* a saved analysis with book moves that lost centipawns, non-book moves in
\* the histogram and an Elo estimate from the curve
C16_Witness ==
    /\ ana.pc = "saved"
    /\ \E i \in 1..Len(ana.moves) :
          /\ ana.moves[i].is_book
          /\ ana.moves[i].player_color = "white"
          /\ ana.moves[i].cpl = <<3000>>
    /\ ana.analytics.cpl_distribution.total > 0
    /\ Len(SideMoves("white")) >= 20
    /\ ana.result.perf_elo_white > 1500

\* the mean of the scores, rounded to two decimals, in 1/100
MeanScore(total, n) == (2 * total + 100 * n) \div (200 * n)

\* C17: a side's accuracy is the mean, over that side's non-book moves with
\* defined scores, of score(CPL), the CPL being the value stored on the Move:
\* max(0, score_best - score_after) in the mover's perspective.
C17_AccuracyFromStoredCpl ==
    ana.pc = "saved" =>
        \A side \in {"white", "black"} :
            LET scored == {i \in 1..Len(ana.moves) :
                              /\ ana.moves[i].player_color = side
                              /\ ~ana.moves[i].is_book
                              /\ ana.moves[i].cpl # << >>}
                total == SumSeq([i \in 1..Len(ana.moves) |->
                                    IF i \in scored THEN CpLossToScore(ana.moves[i].cpl[1])
                                                    ELSE 0])
            IN  scored # {} =>
                    ana.analysis[IF side = "white" THEN "accuracy_white" ELSE "accuracy_black"]
                        = MeanScore(total, Cardinality(scored))

\* C18: for either side the accuracy is within [0, 100], the estimated Elo
\* within [500, 3000], and the estimated Elo at most the opponent's rating
\* plus 400 whenever that rating is known.
C18_AccuracyAndEloBounds ==
    ana.pc = "saved" =>
        \A side \in {"white", "black"} :
            /\ SideAccuracy(side) >= 0 /\ SideAccuracy(side) <= 10000
            /\ SideElo(side) >= 500 /\ SideElo(side) <= 3000
            /\ OpponentElo(side) # << >> => SideElo(side) <= OpponentElo(side)[1] + 400

\* C19: in a game of at least 20 plies each side whose ACPL is defined gets
\* the estimate of the ACPL curve and the penalties; a side of a game of fewer
\* than 20 plies, or without an ACPL, gets 1500.
C19_EloGateOnGamePlies ==
    ana.pc = "saved" =>
        \A side \in {"white", "black"} :
            LET acpl == ComputeAcpl(SideMoves(side))
            IN  IF Len(ana.moves) >= 20 /\ acpl.count > 0
                THEN SideElo(side) = EloFromAcpl(acpl, SideMoves(side), OpponentElo(side))
                ELSE SideElo(side) = 1500

\* C20: in the GameAnalytics row critical_faced is the number of moves flagged
\* is_critical and equals critical_solved + critical_failed, solved counting
\* the critical moves with CPL = 0 and failed those with CPL > 0.
C20_CriticalSplit ==
    ana.pc = "saved" =>
        LET critical == {i \in 1..Len(ana.moves) : ana.moves[i].is_critical}
        IN  /\ ana.analytics.critical_faced = Cardinality(critical)
            /\ ana.analytics.critical_faced
                  = ana.analytics.critical_solved + ana.analytics.critical_failed
            /\ ana.analytics.critical_solved
                  = Cardinality({i \in critical : ana.moves[i].cpl = <<0>>})
            /\ ana.analytics.critical_failed
                  = Cardinality({i \in critical : /\ ana.moves[i].cpl # << >>
                                                  /\ ana.moves[i].cpl[1] > 0})

(***************************************************************************)
(* Claims on select_practice_items (SpecSelect).                           *)
(***************************************************************************)
Mastered(it) ==
    \E p \in db.progress : p.practice_item_id = it.id /\ p.consecutive_first_try >= 3

Due(it) ==
    \E p \in db.progress : p.practice_item_id = it.id /\ LeqDays(p.due_date, SelNow)

\* the items of a requested category that have a progress row and are not mastered
Eligible ==
    { it \in db.items :
        /\ it.category \in sel.categories
        /\ \E p \in db.progress : p.practice_item_id = it.id
        /\ ~Mastered(it) }

Returned == { sel.out[i] : i \in 1..Len(sel.out) }

\* C5: for any store, category set C and limit L, select_practice_items returns
\* at most L distinct items, each of a category in C, and never a mastered item
\* (consecutive_first_try >= 3), on the due-only path or on the fallback path.
C5_SelectionBounds ==
    sel.done =>
        /\ Len(sel.out) <= sel.limit
        /\ \A i, j \in 1..Len(sel.out) : i # j => sel.out[i].id # sel.out[j].id
        /\ \A it \in Returned : it \in db.items /\ it.category \in sel.categories
        /\ \A it \in Returned : ~Mastered(it)

\* The fallback path taken (nothing is due) with a mastered item of a requested
\* category in the store, and more eligible items than the limit.
C5_Witness ==
    /\ sel.done /\ sel.due_only
    /\ \E it \in db.items : it.category \in sel.categories /\ Mastered(it)
    /\ Eligible # {} /\ \A it \in Eligible : ~Due(it)
    /\ Cardinality(Eligible) > sel.limit
    /\ Len(sel.out) = sel.limit /\ sel.limit >= 1

\* C6: with due-only requested, if some non-mastered item of a requested
\* category is due then every returned item is due; if none is due the result
\* is drawn from all non-mastered items of the requested categories.
C6_DueOnly ==
    (sel.done /\ sel.due_only) =>
        IF \E it \in Eligible : Due(it)
        THEN /\ \A it \in Returned : Due(it) /\ it \in Eligible
             /\ Len(sel.out) = Min(sel.limit, Cardinality({it \in Eligible : Due(it)}))
        ELSE /\ Returned \subseteq Eligible
             /\ Len(sel.out) = Min(sel.limit, Cardinality(Eligible))

\* Due-only with one eligible item due and another not yet due: only the due
\* one comes back although the limit leaves room.
C6_Witness ==
    /\ sel.done /\ sel.due_only
    /\ \E it \in Eligible : Due(it)
    /\ \E it \in Eligible : ~Due(it)
    /\ sel.limit = MaxLimit
    /\ Len(sel.out) = 1

(***************************************************************************)
(* Claims on practice generation (SpecGen).                                *)
(***************************************************************************)
GenItems == GameRows(db, gen.game_id).items

\* C4: running generate_practice_items two or more times in succession for the
\* same game, with the same analysis result and a deterministic engine, leaves
\* the same set of items as running it once, with no duplicates, each item
\* carrying one fresh progress record.
C4_GenerationIdempotent ==
    gen.count >= 2 =>
        /\ { ItemContent(it) : it \in GenItems } = gen.once
        /\ \A a, b \in GenItems : ItemContent(a) = ItemContent(b) => a = b
        /\ \A it \in GenItems :
            /\ Cardinality({ p \in db.progress : p.practice_item_id = it.id }) = 1
            /\ \A p \in db.progress :
                p.practice_item_id = it.id => Scheduling(p) = FreshProgress(StoreNow)

\* Two items regenerated for the second time, over a store whose items of both
\* games had been practised.
C4_Witness ==
    /\ gen.count >= 2
    /\ Cardinality(GenItems) = 2
    /\ \E p \in db.progress : p.attempts_total > 0

(***************************************************************************)
(* Claims on the store (Spec).                                             *)
(***************************************************************************)
StepGame == batch.ids[batch.idx + 1]

\* the rows of the step's game when the step started
StepBefore == IF batch.pc = "saved" THEN batch.snap ELSE GameRows(db, StepGame)

\* the step of an already analysed game has just ended in failure
StepFailed ==
    /\ batch.pc \in {"game", "saved"}
    /\ batch'.pc = "game"
    /\ batch'.idx = batch.idx + 1
    /\ batch'.analyzed_count = batch.analyzed_count
    /\ StepBefore.analyses # {}

\* C1: a batch step for a game is all-or-nothing: if any part of it fails, the
\* Analysis, Move, GameAnalytics, PracticeItem and PracticeProgress rows of the
\* game are exactly the rows that existed before the step started (no other
\* writer having committed during the step).
C1_BatchStepAtomic ==
    [][ (StepFailed /\ batch.clean) => GameRows(db', StepGame) = StepBefore ]_vars

\* a re-analysis of game_id has just succeeded, in the batch worker (its step
\* is complete) or in the single-game worker
ReanalysisSucceeded(game_id) ==
    \/ /\ batch.pc = "saved" /\ batch'.pc = "game"
       /\ batch'.analyzed_count = batch.analyzed_count + 1
       /\ StepGame = game_id
       /\ batch.snap.analyses # {}
    \/ /\ batch'.pc = batch.pc /\ batch'.idx = batch.idx
       /\ hist'.runs[game_id] = hist.runs[game_id] + 1
       /\ GameRows(db, game_id).analyses # {}

\* the run that wrote the analysis row of game_id
AnalysisRun(d, game_id) == (CHOOSE a \in d.analyses : a.game_id = game_id).run

\* C2: after any successful re-analysis of an already analysed game, by the
\* batch worker or by the single-game analysis worker, no Move, Analysis,
\* GameAnalytics, PracticeItem or PracticeProgress row written by an earlier
\* analysis of that game remains in the store.
C2_NoRowsOfEarlierAnalysis ==
    [][ \A game_id \in Games :
          ReanalysisSucceeded(game_id) =>
              LET rows == GameRows(db', game_id)
                  run == AnalysisRun(db', game_id)
              IN  \A r \in rows.analyses \cup rows.moves \cup rows.analytics
                           \cup rows.items \cup rows.progress : r.run = run ]_vars

\* C3: in every committed store state each PracticeItem has exactly one
\* PracticeProgress row.
C3_OneProgressPerItem ==
    \A it \in db.items :
        Cardinality({ p \in db.progress : p.practice_item_id = it.id }) = 1

(***************************************************************************)
(* Claims on the engine session (SpecEngine).                              *)
(***************************************************************************)
\* C21: an evaluate call on a session whose subprocess has exited during an
\* earlier evaluate attempts exactly one restart of the subprocess.
C21_RestartOnDeadSession ==
    [][ ( /\ engine.pc = "running"
          /\ engine.handle = "dead"
          /\ engine'.op = "evaluate"
          /\ engine'.calls = engine.calls + 1 )
        => engine'.starts = engine.starts + 1 ]_vars

\* C22: when a run has ended, normally or through an exception at any step,
\* no subprocess started for it is still running.
C22_EngineStoppedAtRunEnd ==
    engine.pc = "ended" => engine.running = 0

\* C29: after classify_move returns, config.multipv is what it was before
\* the call, whatever the engine did, and every evaluation after the probe
\* ran with that count.
C29_MultipvRestored ==
    (engine.pc # "off" /\ engine.op = "classify_move") =>
        /\ engine.multipv = engine.before
        /\ \A i \in 2..Len(engine.used) : engine.used[i] = engine.before

\* a classify_move whose probe ran with five lines, whose later evaluations
\* ran until the subprocess exited in one of them
C29_Witness ==
    /\ engine.pc # "off"
    /\ engine.op = "classify_move"
    /\ engine.before = DEFAULT_MULTIPV
    /\ Len(engine.used) >= 3
    /\ engine.used[1] = CRITICAL_MULTIPV
    /\ engine.handle = "dead"

(***************************************************************************)
(* Claims on the PGN import (SpecImport).                                  *)
(***************************************************************************)
\* the duplicate relation of the claim: same White, Black, Date and the same
\* first 10 SAN plies
SameGame(row, g) ==
    SameHeaders(row, g) /\ FirstPlies(row.moves_san) = FirstPlies(g.moves_san)

\* C24: with deduplication on, no game is added that agrees with a game
\* already stored on White, Black, Date and the first 10 SAN plies; so a
\* text imported a second time adds nothing.
C24_DuplicatesSkipped ==
    (imp.pc = "imported" /\ imp.skip_duplicates) =>
        \A i \in 1..Len(imp.imported) :
            ~ \E j \in 1..Len(imp.before) : SameGame(imp.before[j], imp.imported[i])

(***************************************************************************)
(* Claims on the batch worker's errors and notifications (Spec).           *)
(***************************************************************************)
\* a pass of the loop has just ended without counting its game as analysed
PassFailed ==
    /\ batch.pc \in {"game", "saved"}
    /\ batch'.pc = "game"
    /\ batch'.idx = batch.idx + 1
    /\ batch'.analyzed_count = batch.analyzed_count

\* the run has just emitted finished after its loop
LoopFinished == batch.pc = "game" /\ batch'.pc = "done"

\* C23: a game that fails (not found, analysis or saving raises) gets an error
\* entry and none of its rows changes (no other writer having committed
\* during the pass); the loop goes on to the end of the list, and finished
\* carries the number of analysed games and the error list.
C23_FailedGameSkipped ==
    [][ /\ PassFailed =>
              /\ batch'.errors = Append(batch.errors, StepGame)
              /\ batch.clean => GameRows(db', StepGame) = StepBefore
        /\ LoopFinished =>
              /\ batch.idx = Len(batch.ids)
              /\ batch.analyzed_count + Len(batch.errors) = Len(batch.ids)
              /\ batch'.emitted[Len(batch'.emitted)]
                     = Finished(batch.analyzed_count, batch.errors) ]_vars

\* C30: a run over n >= 1 ids whose loop went through the list, whatever
\* became of each game, has emitted progress(i, n, ids[i]) for i = 1..n, in
\* this order and once each, and then finished, once.
C30_OneProgressPerGame ==
    (batch.pc = "done" /\ Len(batch.ids) >= 1 /\ batch.idx = Len(batch.ids)) =>
        LET n == Len(batch.ids)
        IN  /\ Len(batch.emitted) = n + 1
            /\ \A i \in 1..n : batch.emitted[i] = Progress(i, n, batch.ids[i])
            /\ batch.emitted[n + 1].kind = "finished"

(***************************************************************************)
(* Claims on the practice screen (SpecPractice).                           *)
(***************************************************************************)
\* the step is _evaluate_move on the item on the board
Attempt == hist'.clicks = hist.clicks + 1 /\ ui.current_item # << >>

\* the attempt was a wrong move: the timer for _advance_after_wrong is set
WrongAttempt == Attempt /\ ui'.timers = ui.timers + 1

AttemptedItem == ui.current_item[1]

ItemProgress(d, practice_item_id) ==
    { p \in d.progress : p.practice_item_id = practice_item_id }

\* C25: an attempt that completes on an item whose row is no longer in the
\* store creates and modifies no PracticeProgress row.
C25_StaleUpdateIgnored ==
    [][ (Attempt /\ AttemptedItem \notin db.items) => db'.progress = db.progress ]_vars

\* C26: every attempt on a stored item, wrong or correct, adds one to the
\* attempts_total of the item's progress row, and a wrong one is recorded as
\* Fail: repetitions 0, lapses one more.
C26_EveryAttemptUpdates ==
    [][ ( /\ Attempt
          /\ AttemptedItem \in db.items
          /\ Cardinality(ItemProgress(db, AttemptedItem.id)) = 1 )
        => \E b \in ItemProgress(db, AttemptedItem.id),
              a \in ItemProgress(db', AttemptedItem.id) :
                /\ a.attempts_total = b.attempts_total + 1
                /\ WrongAttempt => /\ a.last_result = "FAIL"
                                   /\ a.repetitions = 0
                                   /\ a.lapses = b.lapses + 1 ]_vars

\* C27: every PracticeProgress row that completing an item writes is the row
\* of the item just solved.
C27_UpdatesProgressOfSolvedItem ==
    [][ (Attempt /\ db'.progress # db.progress)
        => \A p \in db'.progress \ db.progress :
               p.practice_item_id = AttemptedItem.id ]_vars

\* how often an id occurs in the session's list
Occurrences(items, id) == Cardinality({ i \in 1..Len(items) : items[i].id = id })

ListedIds(items) == { items[i].id : i \in 1..Len(items) }

\* C28: no item id occurs more than twice in the session's list, and the
\* list is at most twice as long as the list of distinct items it began with.
C28_RequeuedAtMostOnce ==
    ui.running =>
        /\ \A id \in ListedIds(ui.items) : Occurrences(ui.items, id) <= 2
        /\ Len(ui.items) <= 2 * Cardinality(ListedIds(ui.items))

\* an item that was put back after a wrong move has been attempted again,
\* wrongly, and the list holds it twice
C28_Witness ==
    /\ ui.running
    /\ ui.current_item # << >>
    /\ ui.attempts_on_item = 2
    /\ ui.timers = 2
    /\ ui.current_item[1].id \in ui.requeued_ids
    /\ Occurrences(ui.items, ui.current_item[1].id) = 2

====
